---- MODULE Spec2Model ----
(***************************************************************************)
(* A model of the auto-rsa multi-broker dispatcher: the Discord `rsa`      *)
(* command (autoRSA.py), its per-broker loop fun_run, the argument parser  *)
(* and the broker adapters (tradier, schwab, robinhood, fennel, public,    *)
(* fidelity).                                                              *)
(*                                                                         *)
(* Specifications:                                                         *)
(*   Spec      one dispatch of fun_run on the bot's event loop             *)
(*   SpecParse argParser applied to one argument list                      *)
(*   SpecAlias argParser applied to a command naming a group of brokers    *)
(*   SpecTxn   one <broker>_transaction call over a session                *)
(*   SpecInit  one <broker>_init call over a list of credential sets       *)
(*   SpecFid   one fidelity_run call over a list of credential sets        *)
(*   SpecHold  one <broker>_holdings call over a session                   *)
(*   SpecLogin SpecInit and SpecFid together                               *)
(*   SpecRelay the code relay with logins waiting for a code               *)
(*   SpecAcct  one accountrsa command                                      *)
(*   SpecStore rsaadd and removersa commands on the credential store       *)
(*   SpecRsa   one request (chat or command line), from words to dispatch *)
(*   SpecHandoff fidelity_run handed to the loop, and what fun_run makes   *)
(*             of its result                                               *)
(*   SpecCreds rsa requests of several users in flight, from the lookup    *)
(*             of the credentials to the adapter's login                   *)
(***************************************************************************)
EXTENDS Integers, Sequences, FiniteSets, TLC

VARIABLES
    order,      \* the request: [brokers, notbrokers, second_command]
    store,      \* brokers for which rsa_credentials holds a row of the author
    db,         \* bot.db: "none" | "open" | "closed"
    pc,         \* where fun_run stands (an await, a blocking call, or an end)
    idx,        \* position of the for-loop in order.brokers
    status,     \* per position: the broker's state in the dispatch
    invoked,    \* <<broker, function>> pairs of adapter functions entered
    sink,       \* messages handed to printAndDiscord (console + chat)
    log,        \* console-only print() lines of fun_run
    order_logged_in, \* orderObj's logged-in sessions: the brokers whose init gave one
    fut,        \* the future of run_coroutine_threadsafe: "none" | "pending" | ...
    abort       \* the exception that left fun_run, or "none"

VARIABLES
    args,       \* the argument list handed to argParser
    parsed      \* [state |-> "idle"], or what argParser did with args

VARIABLES
    tbroker,    \* the adapter whose <broker>_transaction runs
    treq,       \* the request: [stocks, dry, whole]
    tsess,      \* the session: per sub-account key, its number of accounts
    tpos,       \* the three nested for-loops: [s, k, a]
    tattempts,  \* <<symbol index, key, account>> of every loop body entered
    tlast,      \* the latest loop body: its order calls and its message
    tjson,      \* tradier_transaction's local json_response
    tstate      \* "idle" | "running" | "returned" | "raised"

VARIABLES
    ibroker,    \* the adapter whose <broker>_init runs
    icreds,     \* EXTERNAL_CREDENTIALS split at ",": the credential sets
    ipos,       \* position of the for-loop in icreds
    ihandles,   \* Brokerage logged-in objects: <<sub-account key, credential>>
    iaccts,     \* Brokerage account numbers: <<sub-account key, account>>
    isucceeded, \* positions whose login and account discovery went through
    ilast,      \* what the latest loop body ended with
    icode,      \* how its wait for a code ended: "not asked" | "code" | "none"
    iret        \* "idle" | "running" | "session" | "none" | "raised"

VARIABLES
    fcmd,       \* second_command of the fidelity_run call
    fcreds,     \* the credential sets of the fidelity_run call
    fpos,       \* position of the for-loop in fcreds
    fstep,      \* "idle" | "init" | "action" | "done" | "raised"
    fbrowser,   \* per position: the FidelityAutomation of its fidelity_init
    fsteps,     \* the steps run so far, with the browser they met
    flast       \* what the latest fidelity_init did

VARIABLES
    hbroker,    \* the adapter whose <broker>_holdings runs
    hsess,      \* the session: per sub-account key, its number of accounts
    hpos,       \* the two nested for-loops: [k, a]
    hqueried,   \* <<key, account>> of every account whose positions were asked for
    hlast,      \* the latest loop body: what the query gave and what was reported
    hflushed,   \* number of printHoldings calls
    hstate      \* "idle" | "running" | "returned" | "raised"

VARIABLES
    rchal,      \* the pending 2FA challenges of the code relay, in order of registration
    rclock,     \* the time, in seconds since the relay started
    rstate      \* "idle" | "running"

VARIABLES
    arows,      \* the rows of the author in rsa_credentials, as fetchall returns them
    afetched,   \* "none" | "rows" | "raise": how the SELECT of accountrsa ended
    asent,      \* the messages accountrsa sent with ctx.send, in order
    astate      \* "idle" | "called" | "done"

VARIABLES
    ctable,     \* the rows of rsa_credentials: [id, user_id, broker, credentials]
    cnextid,    \* the next AUTOINCREMENT id
    cack,       \* per (user, broker): the credentials of the last acknowledged rsaadd, "none" after an acknowledged removersa
    creply,     \* what the last command answered
    ccount,     \* the number of commands handled
    cstate      \* "idle" | "running"

VARIABLES
    ureq,       \* the rsa requests in flight: per request its author, broker, API_METADATA and where fun_run stands
    uenv        \* os.environ: the credentials the process itself was started with, per broker

dvars == <<order, store, db, pc, idx, status, invoked, sink, log, order_logged_in, fut, abort>>
pvars == <<args, parsed>>
tvars == <<tbroker, treq, tsess, tpos, tattempts, tlast, tjson, tstate>>

ivars == <<ibroker, icreds, ipos, ihandles, iaccts, isucceeded, ilast, icode, iret>>
fvars == <<fcmd, fcreds, fpos, fstep, fbrowser, fsteps, flast>>

hvars == <<hbroker, hsess, hpos, hqueried, hlast, hflushed, hstate>>

rvars == <<rchal, rclock, rstate>>

avars == <<arows, afetched, asent, astate>>

cvars == <<ctable, cnextid, cack, creply, ccount, cstate>>

uvars == <<ureq, uenv>>

vars == <<dvars, pvars, tvars, ivars, fvars, hvars, rvars, avars, cvars, uvars>>

\* the variables a dispatch, a parse, a transaction, an init, a fidelity run
\* leave alone
not_dispatch == <<pvars, tvars, ivars, fvars, hvars, rvars, avars, cvars, uvars>>
not_parse == <<dvars, tvars, ivars, fvars, hvars, rvars, avars, cvars, uvars>>
not_transaction == <<dvars, pvars, ivars, fvars, hvars, rvars, avars, cvars, uvars>>
not_init == <<dvars, pvars, tvars, fvars, hvars, rvars, avars, cvars, uvars>>
not_fidelity == <<dvars, pvars, tvars, ivars, hvars, rvars, avars, cvars, uvars>>
not_holdings == <<dvars, pvars, tvars, ivars, fvars, rvars, avars, cvars, uvars>>
not_relay == <<dvars, pvars, tvars, ivars, fvars, hvars, avars, cvars, uvars>>
not_account == <<dvars, pvars, tvars, ivars, fvars, hvars, rvars, cvars, uvars>>
not_store == <<dvars, pvars, tvars, ivars, fvars, hvars, rvars, avars, uvars>>
not_requests == <<dvars, pvars, tvars, ivars, fvars, hvars, rvars, avars, cvars>>

----------------------------------------------------------------------------
(* Bounds *)

\* longest broker list of a request
MaxBrokers == 3

\* most symbols of a request, most sub-account keys of a session, most
\* accounts under one key
MaxSyms == 2
MaxKeys == 2
MaxAccts == 2

\* longest argument list handed to argParser
MaxArgs == 6

\* most credential sets in one broker's credential string
MaxCreds == 3

\* longest argument list of a command that names a group of brokers
MaxAliasArgs == 4

\* most rsaadd and removersa commands in a row
MaxCmds == 3

\* longest argument list of an rsa command that is followed to its dispatch
MaxRsaArgs == 4

\* most rows one user has in rsa_credentials
MaxRows == 3

\* most rsa requests in flight at once
MaxRequests == 2

\* most challenges registered with the code relay, and how long it is watched
\* (in steps of half the code timeout)
MaxChallenges == 2
MaxTicks == 3

----------------------------------------------------------------------------
(* autoRSA.py: globals *)

SUPPORTED_BROKERS ==
    << "chase", "fennel", "fidelity", "firstrade", "public", "robinhood",
       "schwab", "tastytrade", "tradier", "vanguard", "webull" >>

DAY1_BROKERS ==
    << "chase", "fennel", "firstrade", "public", "schwab", "tastytrade",
       "tradier", "webull" >>

Range(s) == {s[i] : i \in DOMAIN s}

nicknames(broker) ==
    CASE broker \in {"fid", "fido"} -> "fidelity"
      [] broker = "ft"    -> "firstrade"
      [] broker = "rh"    -> "robinhood"
      [] broker = "tasty" -> "tastytrade"
      [] broker = "vg"    -> "vanguard"
      [] broker = "wb"    -> "webull"
      [] OTHER            -> broker

----------------------------------------------------------------------------
(* fun_run: the per-broker dispatch loop *)

\* one broker of each branch of fun_run's init dispatch, plus robinhood
DispatchBrokers == {"fennel", "fidelity", "robinhood", "schwab", "tradier"}

\* line 178: init is awaited with the bot object and the loop
BotBrokers == {"fennel", "firstrade", "public"}
\* line 186: playwright brokers, one <broker>_run coroutine
RunBrokers == {"chase", "fidelity", "vanguard"}

\* requests as argParser + order_validate leave them: a non-empty broker list
\* without duplicates, a set of excluded brokers
BrokerLists ==
    UNION { { s \in [1..n -> DispatchBrokers] :
                \A i, j \in 1..n : i < j => s[i] # s[j] } : n \in 1..MaxBrokers }

Commands == {"_holdings", "_transaction"}

\* the states of a broker in a dispatch
Terminal == {"unavailable", "excluded", "skipped", "login_failed", "done", "errored"}

\* calls of fun_run that do not return to the event loop while they run:
\* the un-awaited init (line 216), the un-awaited transaction (line 238) and
\* future.result() (line 202)
BlockingCalls == {"sync_init", "sync_transaction", "future_result"}

\* awaits of fun_run (the event loop runs other tasks meanwhile), and its ends
AwaitPoints == {"rsa_parse", "lookup", "await_init", "await_holdings", "done", "aborted"}

Broker == order.brokers[idx]

\* the exclusion test left out
Excluded_unchecked(broker) == FALSE

\* line 157
Excluded(broker) == broker \in order.notbrokers

\* an exception that leaves fun_run (raised outside the try of line 175)
Propagate(what) ==
    /\ pc' = "aborted"
    /\ abort' = what
    /\ UNCHANGED <<idx, status>>

\* the adapter call made outside the try: its exception leaves fun_run
Errored_uncaught(fun_name, broker) ==
    /\ Propagate("adapter")
    /\ UNCHANGED log

\* the broker is gone through once more after its error
Errored_retry(fun_name, broker) ==
    /\ status' = [status EXCEPT ![idx] = "errored"]
    /\ log' = Append(log, <<"Error in", fun_name, broker>>)
    /\ idx' = idx
    /\ pc' = "loop"
    /\ UNCHANGED abort

\* lines 247-251: the per-broker except clause, then the next iteration
Errored(fun_name, broker) ==
    /\ status' = [status EXCEPT ![idx] = "errored"]
    /\ log' = Append(log, <<"Error in", fun_name, broker>>)
    /\ idx' = idx + 1
    /\ pc' = "loop"
    /\ UNCHANGED abort

DispatchInit ==
    /\ order \in [brokers : BrokerLists,
                  notbrokers : SUBSET DispatchBrokers,
                  second_command : Commands]
    /\ order.notbrokers \subseteq Range(order.brokers)
    /\ store \in SUBSET Range(order.brokers)
    /\ db = "open"
    /\ pc = "rsa_parse"
    /\ idx = 1
    /\ status = [i \in DOMAIN order.brokers |-> "pending"]
    /\ invoked = {}
    /\ order_logged_in = {}
    /\ sink = << >>
    /\ log = << >>
    /\ fut = "none"
    /\ abort = "none"

\* no dispatch under way
DispatchIdle ==
    /\ order = [brokers |-> << >>, notbrokers |-> {}, second_command |-> "_holdings"]
    /\ store = {}
    /\ db = "none"
    /\ pc = "idle"
    /\ idx = 1
    /\ status = << >>
    /\ invoked = {}
    /\ order_logged_in = {}
    /\ sink = << >>
    /\ log = << >>
    /\ fut = "none"
    /\ abort = "none"

ParseIdle ==
    /\ args = << >>
    /\ parsed = [state |-> "idle"]

TxnIdle ==
    /\ tbroker = "none"
    /\ treq = [stocks |-> << >>, dry |-> TRUE, whole |-> TRUE]
    /\ tsess = << >>
    /\ tpos = [s |-> 1, k |-> 1, a |-> 1]
    /\ tattempts = << >>
    /\ tlast = [calls |-> << >>, msg |-> "none"]
    /\ tjson = "unbound"
    /\ tstate = "idle"

InitIdle ==
    /\ ibroker = "none"
    /\ icreds = << >>
    /\ ipos = 1
    /\ ihandles = {}
    /\ iaccts = {}
    /\ isucceeded = {}
    /\ ilast = "none"
    /\ icode = "not asked"
    /\ iret = "idle"

FidIdle ==
    /\ fcmd = "_holdings"
    /\ fcreds = << >>
    /\ fpos = 1
    /\ fstep = "idle"
    /\ fbrowser = << >>
    /\ fsteps = {}
    /\ flast = [outcome |-> "none"]

HoldIdle ==
    /\ hbroker = "none"
    /\ hsess = << >>
    /\ hpos = [k |-> 1, a |-> 1]
    /\ hqueried = << >>
    /\ hlast = [query |-> "none", msg |-> "none"]
    /\ hflushed = 0
    /\ hstate = "idle"

RelayIdle ==
    /\ rchal = << >>
    /\ rclock = 0
    /\ rstate = "idle"

AccountIdle ==
    /\ arows = << >>
    /\ afetched = "none"
    /\ asent = << >>
    /\ astate = "idle"

StoreIdle ==
    /\ ctable = {}
    /\ cnextid = 1
    /\ cack = << >>
    /\ creply = "none"
    /\ ccount = 0
    /\ cstate = "idle"

RequestsIdle ==
    /\ ureq = << >>
    /\ uenv = << >>

Init == DispatchInit /\ ParseIdle /\ TxnIdle /\ InitIdle /\ FidIdle /\ HoldIdle /\ RelayIdle /\ AccountIdle /\ StoreIdle /\ RequestsIdle

\* lines 148-151: with no broker to run, one message and the return
Connected ==
    IF order.brokers = << >>
    THEN /\ sink' = Append(sink, <<"No brokers to run">>)
         /\ pc' = "done"
    ELSE /\ pc' = "loop"
         /\ UNCHANGED sink

\* rsa, lines 486-511, then fun_run lines 131-151: the liveness probe of the
\* shared handle and the reconnect; a failing reconnect leaves fun_run
fun_run_connect ==
    /\ pc = "rsa_parse"
    /\ \E connects \in BOOLEAN :
         IF db = "open"
         THEN /\ Connected
              /\ UNCHANGED <<db, abort>>
         ELSE IF connects
              THEN /\ db' = "open"
                   /\ Connected
                   /\ UNCHANGED abort
              ELSE /\ pc' = "aborted"
                   /\ abort' = "db_connect"
                   /\ UNCHANGED <<db, sink>>
    /\ UNCHANGED <<order, store, idx, status, invoked, log, fut>>
    /\ UNCHANGED order_logged_in
    /\ UNCHANGED not_dispatch

\* lines 152-158 and 252: the head of the for-loop, and the final message
fun_run_loop ==
    /\ pc = "loop"
    /\ IF idx > Len(order.brokers)
       THEN /\ sink' = Append(sink, <<"All commands complete">>)
            /\ pc' = "done"
            /\ UNCHANGED <<idx, status>>
       ELSE IF Broker = "robinhood"
       THEN /\ status' = [status EXCEPT ![idx] = "unavailable"]
            /\ idx' = idx + 1
            /\ UNCHANGED <<pc, sink>>
       ELSE IF Excluded(Broker)
       THEN /\ status' = [status EXCEPT ![idx] = "excluded"]
            /\ idx' = idx + 1
            /\ UNCHANGED <<pc, sink>>
       ELSE /\ pc' = "lookup"
            /\ UNCHANGED <<idx, status, sink>>
    /\ UNCHANGED <<order, store, db, invoked, log, fut, abort>>
    /\ UNCHANGED order_logged_in
    /\ UNCHANGED not_dispatch

\* lines 160-171: the credential lookup and decrypt_credential, both outside
\* the try of line 175
fun_run_lookup ==
    /\ pc = "lookup"
    /\ \E decrypts \in BOOLEAN :
         IF db # "open"
         THEN Propagate("lookup")
         ELSE IF Broker \notin store
         THEN /\ status' = [status EXCEPT ![idx] = "skipped"]
              /\ idx' = idx + 1
              /\ pc' = "loop"
              /\ UNCHANGED abort
         ELSE IF ~decrypts
         THEN Propagate("decrypt")
         ELSE /\ pc' = "init"
              /\ UNCHANGED <<idx, status, abort>>
    /\ UNCHANGED <<order, store, db, invoked, sink, log, fut>>
    /\ UNCHANGED order_logged_in
    /\ UNCHANGED not_dispatch

\* lines 173-185 and 210-213: an awaited init is entered
fun_run_init_await ==
    /\ pc = "init"
    /\ LET broker == nicknames(Broker) IN
         /\ broker \in BotBrokers \cup {"schwab"}
         /\ invoked' = invoked \cup {<<broker, "_init">>}
    /\ pc' = "await_init"
    /\ UNCHANGED <<order, store, db, idx, status, sink, log, fut, abort>>
    /\ UNCHANGED order_logged_in
    /\ UNCHANGED not_dispatch

\* lines 214-217: the init of the remaining brokers is called without await
fun_run_init_sync ==
    /\ pc = "init"
    /\ LET broker == nicknames(Broker) IN
         /\ broker \notin BotBrokers \cup RunBrokers \cup {"schwab"}
         /\ invoked' = invoked \cup {<<broker, "_init">>}
    /\ pc' = "sync_init"
    /\ UNCHANGED <<order, store, db, idx, status, sink, log, fut, abort>>
    /\ UNCHANGED order_logged_in
    /\ UNCHANGED not_dispatch

\* lines 186-203: the <broker>_run coroutine is created and handed to the
\* loop fun_run itself runs on, then future.result() is called
fun_run_submit ==
    /\ pc = "init"
    /\ nicknames(Broker) \in RunBrokers
    /\ fut' = "pending"
    /\ pc' = "future_result"
    /\ UNCHANGED <<order, store, db, idx, status, invoked, sink, log, abort>>
    /\ UNCHANGED order_logged_in
    /\ UNCHANGED not_dispatch

\* stockOrder.set_logged_in: the broker's entry is what the init returned
set_logged_in(sessions, result, broker) ==
    IF result = "session" THEN sessions \cup {broker} ELSE sessions \ {broker}

\* the second command started whatever get_logged_in gives
Verified_unchecked(sessions, broker) == TRUE

\* lines 221-225: orderObj.get_logged_in(broker) is not None
Verified(sessions, broker) == broker \in sessions

\* lines 185, 211-226: the init returned or raised; set_logged_in, the
\* post-login validation, and the start of the second command
fun_run_init_done ==
    /\ pc \in {"await_init", "sync_init"}
    /\ LET broker == nicknames(Broker) IN
       \E result \in {"session", "none", "raise"} :
         CASE result = "raise" ->
                /\ Errored("_init", broker)
                /\ UNCHANGED <<invoked, order_logged_in>>
           [] OTHER ->
                /\ order_logged_in' = set_logged_in(order_logged_in, result, broker)
                /\ IF ~Verified(order_logged_in', broker)
                   THEN /\ status' = [status EXCEPT ![idx] = "login_failed"]
                        /\ log' = Append(log, <<"not logged in, skipping", broker>>)
                        /\ idx' = idx + 1
                        /\ pc' = "loop"
                        /\ UNCHANGED <<invoked, abort>>
                   ELSE /\ invoked' = invoked \cup {<<broker, order.second_command>>}
                        /\ pc' = IF order.second_command = "_holdings"
                                 THEN "await_holdings" ELSE "sync_transaction"
                        /\ UNCHANGED <<idx, status, log, abort>>
    /\ UNCHANGED <<order, store, db, sink, fut>>
    /\ UNCHANGED not_dispatch

\* lines 228-235 and 247-251: the awaited holdings returned or raised
fun_run_holdings_done ==
    /\ pc = "await_holdings"
    /\ LET broker == nicknames(Broker) IN
       \E raised \in BOOLEAN :
         IF raised
         THEN Errored("_holdings", broker)
         ELSE /\ status' = [status EXCEPT ![idx] = "done"]
              /\ idx' = idx + 1
              /\ pc' = "loop"
              /\ UNCHANGED <<log, abort>>
    /\ UNCHANGED <<order, store, db, invoked, sink, fut>>
    /\ UNCHANGED order_logged_in
    /\ UNCHANGED not_dispatch

\* lines 236-251: the un-awaited transaction returned or raised
fun_run_transaction_done ==
    /\ pc = "sync_transaction"
    /\ LET broker == nicknames(Broker) IN
       \E raised \in BOOLEAN :
         IF raised
         THEN /\ Errored("_transaction", broker)
              /\ UNCHANGED sink
         ELSE /\ status' = [status EXCEPT ![idx] = "done"]
              /\ sink' = Append(sink, <<"transactions complete", broker>>)
              /\ idx' = idx + 1
              /\ pc' = "loop"
              /\ UNCHANGED <<log, abort>>
    /\ UNCHANGED <<order, store, db, invoked, fut>>
    /\ UNCHANGED order_logged_in
    /\ UNCHANGED not_dispatch

\* the coroutine handed to run_coroutine_threadsafe (line 199) is started by
\* the loop once no task holds the loop's thread; fidelity_run returns None
\* on every path (fidelityAPI.py lines 713, 752) or raises
run_submitted ==
    /\ fut = "pending"
    /\ pc \in AwaitPoints
    /\ invoked' = invoked \cup {<<nicknames(Broker), "_run">>}
    /\ \E outcome \in {"returned_none", "raised"} : fut' = outcome
    /\ UNCHANGED <<order, store, db, pc, idx, status, sink, log, abort>>
    /\ UNCHANGED order_logged_in
    /\ UNCHANGED not_dispatch

\* lines 201-209: future.result() returns once the future is done; a None
\* result and a fault are both re-raised as RuntimeError
fun_run_future_done ==
    /\ pc = "future_result"
    /\ fut \in {"returned_none", "raised"}
    /\ Errored("_run", nicknames(Broker))
    /\ fut' = "none"
    /\ UNCHANGED <<order, store, db, invoked, sink>>
    /\ UNCHANGED order_logged_in
    /\ UNCHANGED not_dispatch

\* on_disconnect, lines 445-448: an event of the same event loop; it runs
\* when the loop is not held by a task
on_disconnect ==
    /\ pc \in AwaitPoints
    /\ db' = IF db = "none" THEN "none" ELSE "closed"
    /\ UNCHANGED <<order, store, pc, idx, status, invoked, sink, log, fut, abort>>
    /\ UNCHANGED order_logged_in
    /\ UNCHANGED not_dispatch

Next ==
    \/ fun_run_connect
    \/ fun_run_loop
    \/ fun_run_lookup
    \/ fun_run_init_await
    \/ fun_run_init_sync
    \/ fun_run_submit
    \/ fun_run_init_done
    \/ fun_run_holdings_done
    \/ fun_run_transaction_done
    \/ on_disconnect

Spec == Init /\ [][Next]_vars

\* a step of the dispatch itself (not of another task of the loop)
FunRunStep ==
    \/ fun_run_connect \/ fun_run_loop \/ fun_run_lookup
    \/ fun_run_init_await \/ fun_run_init_sync \/ fun_run_submit
    \/ fun_run_init_done \/ fun_run_holdings_done \/ fun_run_transaction_done
    \/ run_submitted \/ fun_run_future_done

AdapterFunctions == {"_init", "_run", "_holdings", "_transaction"}

\* fun_run is inside a call of an adapter function
AdapterCalls == {"await_init", "sync_init", "await_holdings", "sync_transaction"}

----------------------------------------------------------------------------
(* Claims on Spec *)

\* C1: no adapter function (init, run, holdings, transaction) is entered for
\* a broker of the request's excluded set, and such a broker leaves "pending"
\* only as "excluded" (or as the unavailable robinhood), at its turn in the loop.
C1_ExcludedNeverProcessed ==
    /\ \A b \in order.notbrokers : \A f \in AdapterFunctions : <<b, f>> \notin invoked
    /\ \A i \in DOMAIN order.brokers :
         order.brokers[i] \in order.notbrokers
            => status[i] \in {"pending", "excluded", "unavailable"}

\* an excluded broker with stored credentials was passed over while another
\* broker of the same request had its adapter entered, and the dispatch ended
C1_Witness ==
    /\ pc = "done"
    /\ invoked # {}
    /\ \E i \in DOMAIN order.brokers :
         /\ order.brokers[i] \in order.notbrokers \cap store
         /\ order.brokers[i] # "robinhood"
         /\ status[i] = "excluded"

\* C2: when an adapter call (init, holdings or transaction) ends, fun_run is
\* never left: a fault marks that broker errored and the loop goes on to the
\* next broker.
C2_AdapterFaultCaught ==
    [][ (pc \in AdapterCalls /\ pc' # pc)
          => /\ pc' # "aborted"
             /\ abort' = "none"
             /\ (status'[idx] = "errored" => idx' = idx + 1 /\ pc' = "loop") ]_vars

\* three brokers, the middle one raised, the first and the third ran to the end
C2_Witness ==
    /\ pc = "done"
    /\ Len(order.brokers) = 3
    /\ status = <<"done", "errored", "done">>

\* C3: every dispatch ends with the final message emitted exactly once: it
\* is never left by an exception (a failed reconnect of the credential store
\* aside), and until it is done it can take a step.
C3_BatchAlwaysCompletes ==
    /\ abort \in {"none", "db_connect"}
    /\ pc = "done" =>
          Cardinality({i \in DOMAIN sink : sink[i] = <<"All commands complete">>}) = 1
    /\ pc \notin {"done", "aborted"} => ENABLED FunRunStep

\* C6: only a failure to connect to the credential store leaves fun_run.
C6_OnlyConnectFailureAborts ==
    abort \in {"none", "db_connect"}

\* C7: while fun_run waits in future.result(), the submitted coroutine can
\* run or the wait can end.
C7_SubmissionCompletes ==
    pc = "future_result" => ENABLED (run_submitted \/ fun_run_future_done)

\* C9: while a blocking call of fun_run is in flight, another event of the
\* same event loop (here on_disconnect) can be handled.
C9_SchedulerNotBlocked ==
    pc \in BlockingCalls => ENABLED on_disconnect

\* C13: a broker's holdings or transaction function is invoked only when its
\* init gave a session in this dispatch; when the init returned None or
\* raised, the step that takes note of it invokes nothing, writes exactly one
\* log line, and puts the loop at the next broker.
C13_ActionOnlyAfterLogin ==
    /\ [](\A b \in DispatchBrokers :
            (<<b, "_holdings">> \in invoked \/ <<b, "_transaction">> \in invoked)
                => b \in order_logged_in)
    /\ [][(pc \in {"await_init", "sync_init"}
            /\ status'[idx] \in {"login_failed", "errored"})
           => /\ invoked' = invoked
              /\ Len(log') = Len(log) + 1
              /\ idx' = idx + 1
              /\ pc' = "loop"]_vars

\* a broker whose init returned None, a later one that went through
C13_Witness ==
    \E i, j \in DOMAIN status :
        /\ i < j
        /\ status[i] = "login_failed"
        /\ status[j] = "done"
        /\ Len(log) = 1

\* C16: the step that finds no credentials for (user, broker) marks the
\* broker skipped, invokes no adapter function, sends nothing to the user
\* and writes one log line that names the broker.
C16_SkipIsLogged ==
    [][(pc = "lookup" /\ status'[idx] = "skipped")
        => /\ invoked' = invoked
           /\ sink' = sink
           /\ Len(log') = Len(log) + 1
           /\ \E i \in DOMAIN log'[Len(log')] : log'[Len(log')][i] = Broker]_vars

\* C17: when the dispatch has gone through its loop, every requested broker
\* that is not excluded and has stored credentials has had its init (or its
\* run) invoked.
C17_ConfiguredBrokersAttempted ==
    pc = "done" =>
        \A i \in DOMAIN order.brokers :
            LET b == order.brokers[i] IN
            (~Excluded(b) /\ b \in store)
                => \/ <<nicknames(b), "_init">> \in invoked
                   \/ <<nicknames(b), "_run">> \in invoked

\* C19: brokers are gone through one at a time and in the order of the
\* request's broker list: the brokers before the loop position are finished,
\* those after it are untouched, a finished broker stays as it is, the loop
\* position never goes back, and an init is entered only for the broker at
\* the loop position and only if it was not entered before.
C19_SequentialInOrder ==
    /\ [](\A i \in DOMAIN status :
            /\ i < idx => status[i] \in Terminal
            /\ i > idx => /\ status[i] = "pending"
                          /\ \A fn \in AdapterFunctions :
                                <<nicknames(order.brokers[i]), fn>> \notin invoked)
    /\ [][/\ idx' >= idx
          /\ \A i \in DOMAIN status :
                status[i] \in Terminal => status'[i] = status[i]
          /\ (pc = "init" /\ pc' \in {"await_init", "sync_init"})
                => /\ <<nicknames(Broker), "_init">> \notin invoked
                   /\ invoked' = invoked \cup {<<nicknames(Broker), "_init">>}]_vars

\* a request of three brokers, all three gone through to the end
C19_Witness ==
    /\ pc = "done"
    /\ status = <<"done", "done", "done">>
    /\ Cardinality(invoked) = 6

\* C22: every credential lookup of a dispatch is made on a live handle of
\* the credential store: the handle that passed the probe, or the fresh
\* connection that replaced it, and never a closed one.
C22_LookupOnLiveHandle ==
    [][fun_run_lookup => db = "open"]_vars

\* C26: every failure of a broker that fun_run writes to the console (an
\* init or an action that raised, a login that gave no session) is also
\* sent, with the same text, to the user's output sink.
C26_FailuresReachUser ==
    \A i \in DOMAIN log : \E j \in DOMAIN sink : sink[j] = log[i]

----------------------------------------------------------------------------
(* argParser *)

\* the words an argument list is made of (the opt-out as a user may type it)
Tokens == {"buy", "holdings", "1", "all", "not", "FALSE"}

ArgLists == UNION { [1..n -> Tokens] : n \in 0..MaxArgs }

\* str.lower(), on the words used here
lower(tok) ==
    CASE tok = "FALSE" -> "false"
      [] tok = "False" -> "false"
      [] tok = "BUY"   -> "buy"
      [] tok = "SELL"  -> "sell"
      [] tok = "ALL"   -> "all"
      [] OTHER         -> tok

\* str.upper(), on the words used here
upper(tok) ==
    CASE tok = "aapl" -> "AAPL"
      [] tok = "msft" -> "MSFT"
      [] tok = "all"  -> "ALL"
      [] tok = "not"  -> "NOT"
      [] tok = "buy"  -> "BUY"
      [] tok = "holdings" -> "HOLDINGS"
      [] tok = "false" -> "FALSE"
      [] OTHER        -> tok

\* str.split(","), on the words used here
split(tok) ==
    CASE tok = "tradier,fid"     -> <<"tradier", "fid">>
      [] tok = "tradier,tradier" -> <<"tradier", "tradier">>
      [] tok = "fennel,foo"      -> <<"fennel", "foo">>
      [] tok = "aapl,msft"       -> <<"aapl", "msft">>
      [] OTHER                   -> <<tok>>

\* the words float() accepts; on the others it raises ValueError
IsNumber(tok) == tok \in {"1", "2", "0.5", "0", "-1"}

\* float(tok), in tenths
AmountOf(tok) ==
    CASE tok = "1"   -> 10
      [] tok = "2"   -> 20
      [] tok = "0.5" -> 5
      [] tok = "0"   -> 0
      [] tok = "-1"  -> -10

RECURSIVE Dedupe(_)
Dedupe(sq) ==
    IF sq = << >> THEN << >>
    ELSE LET front == Dedupe(SubSeq(sq, 1, Len(sq) - 1))
             last == sq[Len(sq)]
         IN IF last \in Range(front) THEN front ELSE Append(front, last)

\* helperAPI.stockOrder(): a new request
stockOrder ==
    [holdings |-> FALSE, action |-> "none", amount |-> << >>, stocks |-> << >>,
     brokers |-> << >>, notbrokers |-> << >>, dry |-> TRUE]

\* a validation that rejects nothing
order_invalid_never(o) == FALSE

\* helperAPI.stockOrder.order_validate: what it rejects
order_invalid(o) ==
    \/ o.brokers = << >>
    \/ /\ ~o.holdings
       /\ \/ o.action = "none"
          \/ o.amount = << >>
          \/ o.stocks = << >>

\* helperAPI.stockOrder.order_validate: the lists it leaves
order_validate(o) ==
    [o EXCEPT !.stocks = Dedupe(o.stocks),
              !.brokers = Dedupe(o.brokers),
              !.notbrokers = Dedupe(o.notbrokers)]

Supported(b) == b \in Range(SUPPORTED_BROKERS)
NotVanguard(b) == b # "vanguard"

\* lines 267-279: the broker list of the holdings form
HoldingsBrokers(tok) ==
    CASE tok = "all"  -> SUPPORTED_BROKERS
      [] tok = "day1" -> DAY1_BROKERS
      [] tok = "most" -> SelectSeq(SUPPORTED_BROKERS, NotVanguard)
      [] tok = "fast" -> DAY1_BROKERS \o <<"robinhood">>
      [] OTHER        -> [i \in DOMAIN split(tok) |-> nicknames(split(tok)[i])]

\* lines 282-284 and 308-310: the excluded list
NotBrokers(tok) ==
    SelectSeq([i \in DOMAIN split(tok) |-> nicknames(split(tok)[i])], Supported)

\* the buy/sell form with "fast" taken as "day1"
OrderBrokers_fast_as_day1(tok) ==
    CASE tok = "all"  -> SUPPORTED_BROKERS
      [] tok = "day1" -> DAY1_BROKERS
      [] tok = "most" -> SelectSeq(SUPPORTED_BROKERS, NotVanguard)
      [] tok = "fast" -> DAY1_BROKERS
      [] OTHER        -> NotBrokers(tok)

\* lines 294-305: the broker list of the buy/sell form
OrderBrokers(tok) ==
    CASE tok = "all"  -> SUPPORTED_BROKERS
      [] tok = "day1" -> DAY1_BROKERS
      [] tok = "most" -> SelectSeq(SUPPORTED_BROKERS, NotVanguard)
      [] tok = "fast" -> DAY1_BROKERS \o <<"robinhood">>
      [] OTHER        -> NotBrokers(tok)

\* "false" looked for at any position
DryOptOut_anywhere(a) == \E i \in DOMAIN a : a[i] = "false"

\* line 312: args[-1] == "false"
DryOptOut(a) == a[Len(a)] = "false"

Raised(e) == [state |-> "raised", error |-> e]
Returned(o) == [state |-> "returned", order |-> o]

\* lines 258-316
argParser(rawargs) ==
    LET a == [i \in DOMAIN rawargs |-> lower(rawargs[i])]
        n == Len(a)
    IN
    IF n < 1 THEN Raised("IndexError")
    ELSE IF a[1] = "holdings"
    THEN IF n < 2 THEN Raised("IndexError")
         ELSE Returned([stockOrder EXCEPT
                  !.holdings = TRUE,
                  !.brokers = HoldingsBrokers(a[2]),
                  !.notbrokers = IF n > 3 /\ a[3] = "not"
                                 THEN NotBrokers(a[4]) ELSE << >>])
    ELSE IF a[1] \notin {"buy", "sell"} THEN Raised("Unsupported action")
    ELSE IF n < 2 THEN Raised("IndexError")
    ELSE IF ~IsNumber(a[2]) THEN Raised("ValueError")
    ELSE IF n < 4 THEN Raised("IndexError")
    ELSE IF n > 4 /\ a[5] = "not" /\ n < 6 THEN Raised("IndexError")
    ELSE LET o == [stockOrder EXCEPT
                     !.action = a[1],
                     !.amount = <<AmountOf(a[2])>>,
                     !.stocks = [i \in DOMAIN split(a[3]) |-> upper(split(a[3])[i])],
                     !.brokers = OrderBrokers(a[4]),
                     !.notbrokers = IF n > 4 /\ a[5] = "not"
                                    THEN NotBrokers(a[6]) ELSE << >>,
                     !.dry = IF DryOptOut(a) THEN FALSE ELSE TRUE]
         IN IF order_invalid(o) THEN Raised("ValueError")
            ELSE Returned(order_validate(o))

ParseInit ==
    /\ args \in ArgLists
    /\ parsed = [state |-> "idle"]

\* rsa, line 486: argParser is applied to the words of the command
argParser_call ==
    /\ parsed.state = "idle"
    /\ parsed' = argParser(args)
    /\ UNCHANGED args
    /\ UNCHANGED not_parse

InitParse == DispatchIdle /\ ParseInit /\ TxnIdle /\ InitIdle /\ FidIdle /\ HoldIdle /\ RelayIdle /\ AccountIdle /\ StoreIdle /\ RequestsIdle

SpecParse == InitParse /\ [][argParser_call]_vars

----------------------------------------------------------------------------
(* Claims on SpecParse *)

\* C5: a request returned by argParser has dry = TRUE unless the command is
\* a buy or a sell whose last argument is "false" (in any letter case); an
\* argument list without that word always yields dry = TRUE.
C5_DryRunDefault ==
    parsed.state = "returned" =>
        /\ (\A i \in DOMAIN args : lower(args[i]) # "false") => parsed.order.dry
        /\ ~parsed.order.dry =>
              /\ lower(args[1]) \in {"buy", "sell"}
              /\ lower(args[Len(args)]) = "false"
        /\ parsed.order.holdings => parsed.order.dry

\* a buy whose last argument is the opt-out (written in capitals) was parsed
\* into a request with dry = FALSE
C5_Witness ==
    /\ parsed.state = "returned"
    /\ ~parsed.order.dry
    /\ args[Len(args)] = "FALSE"
    /\ Len(args) = 5

\* a buy that names "false" elsewhere than last keeps dry = TRUE
C5_WitnessKept ==
    /\ parsed.state = "returned"
    /\ parsed.order.dry
    /\ ~parsed.order.holdings
    /\ \E i \in DOMAIN args : args[i] = "FALSE"

----------------------------------------------------------------------------
(* <broker>_transaction: tradier, schwab, robinhood, fennel, public, fidelity *)

TxnBrokers == {"tradier", "schwab", "robinhood", "fennel", "public", "fidelity"}

Symbols == {"AAPL", "MSFT"}

\* orderObj.get_stocks()
SymbolLists == UNION { [1..n -> Symbols] : n \in 1..MaxSyms }

\* Brokerage.get_account_numbers(): keys 1..n, key k holding tsess[k] accounts
Sessions == UNION { [1..n -> 1..MaxAccts] : n \in 1..MaxKeys }

TxnInit ==
    /\ tbroker \in TxnBrokers
    /\ treq \in [stocks : SymbolLists, dry : BOOLEAN, whole : BOOLEAN]
    /\ tsess \in Sessions
    \* fidelity_transaction works on the one key it is given (line 895)
    /\ tbroker = "fidelity" => Len(tsess) = 1
    /\ tpos = [s |-> 1, k |-> 1, a |-> 1]
    /\ tattempts = << >>
    /\ tlast = [calls |-> << >>, msg |-> "none"]
    /\ tjson = "unbound"
    /\ tstate = "running"

\* a loop nest that takes only the first account of every key
NextPos_first_account(p) ==
    IF p.k < Len(tsess) THEN [p EXCEPT !.k = p.k + 1, !.a = 1]
    ELSE [s |-> p.s + 1, k |-> 1, a |-> 1]

\* for s in stocks: for key in keys: for account in accounts(key)
NextPos(p) ==
    IF p.a < tsess[p.k] THEN [p EXCEPT !.a = p.a + 1]
    ELSE IF p.k < Len(tsess) THEN [p EXCEPT !.k = p.k + 1, !.a = 1]
    ELSE [s |-> p.s + 1, k |-> 1, a |-> 1]

\* `continue`, or the end of the loop body
Advance ==
    /\ tpos' = NextPos(tpos)
    /\ tstate' = IF NextPos(tpos).s > Len(treq.stocks) THEN "returned" ELSE "running"

\* an exception leaves the transaction function
Escape ==
    /\ tpos' = tpos
    /\ tstate' = "raised"

Enter(broker) ==
    /\ tbroker = broker
    /\ tstate = "running"
    /\ tattempts' = Append(tattempts, <<tpos.s, tpos.k, tpos.a>>)

\* an order call: the API used, whether it can move money, what came back
Call(api, real, result) == [api |-> api, real |-> real, result |-> result]

\* the POST made whatever the request's dry flag
TradierSends_always(req) == TRUE

\* tradierAPI.py line 204
TradierSends(req) == ~req.dry

\* the test for fractional shares left out
is_integer_unchecked(req) == TRUE

\* tradierAPI.py line 198: orderObj.get_amount().is_integer()
is_integer(req) == req.whole

\* tradierAPI.py lines 194-249, one pass of the innermost loop.  make_request
\* returns the JSON, returns None (status, fault) or, on a transport failure,
\* raises from its own except clause (line 50 reads the unbound `response`);
\* the except of line 233 then reads json_response, unbound until first set
tradier_transaction ==
    /\ Enter("tradier")
    /\ IF ~is_integer(treq)
       THEN /\ tlast' = [calls |-> << >>, msg |-> "fractional"]
            /\ Advance
            /\ UNCHANGED tjson
       ELSE IF TradierSends(treq)
       THEN \E out \in {"status", "unrouted", "none", "transport"} :
              CASE out = "transport" ->
                     /\ UNCHANGED tjson
                     /\ IF tjson = "unbound"
                        THEN /\ Escape
                             /\ tlast' = [calls |-> <<Call("POST orders", TRUE, out)>>,
                                          msg |-> "none"]
                        ELSE /\ Advance
                             /\ tlast' = [calls |-> <<Call("POST orders", TRUE, out)>>,
                                          msg |-> "error"]
                [] out = "none" ->
                     /\ tjson' = "none"
                     /\ Advance
                     /\ tlast' = [calls |-> <<Call("POST orders", TRUE, out)>>,
                                  msg |-> "error"]
                [] out = "status" ->
                     /\ tjson' = "json"
                     /\ Advance
                     /\ tlast' = [calls |-> <<Call("POST orders", TRUE, out)>>,
                                  msg |-> "status"]
                [] out = "unrouted" ->
                     /\ tjson' = "json"
                     /\ Advance
                     /\ tlast' = [calls |-> <<Call("POST orders", TRUE, out)>>,
                                  msg |-> "error"]
       ELSE /\ tlast' = [calls |-> << >>, msg |-> "dry"]
            /\ Advance
            /\ UNCHANGED tjson
    /\ UNCHANGED <<tbroker, treq, tsess>>
    /\ UNCHANGED not_transaction

\* the fallback order made whatever the first one reported
not_success_always(first) == TRUE

\* schwabAPI.py line 157: `if not success:`
not_success(first) == first = "failure"

\* schwabAPI.py lines 134-184, one pass of the innermost loop: trade_v2, and
\* trade when trade_v2 reported failure, both with dry_run = orderObj.get_dry()
schwab_transaction ==
    /\ Enter("schwab")
    /\ \E first \in {"success", "failure", "raise"} :
         IF first = "raise"
         THEN tlast' = [calls |-> <<Call("trade_v2", ~treq.dry, first)>>,
                        msg |-> "error"]
         ELSE IF not_success(first)
         THEN \E second \in {"success", "failure", "raise"} :
                tlast' = [calls |-> <<Call("trade_v2", ~treq.dry, first),
                                      Call("trade", ~treq.dry, second)>>,
                          msg |-> IF second = "raise" THEN "error" ELSE "retry"]
         ELSE tlast' = [calls |-> <<Call("trade_v2", ~treq.dry, first)>>,
                        msg |-> "verification"]
    /\ Advance
    /\ UNCHANGED <<tbroker, treq, tsess, tjson>>
    /\ UNCHANGED not_transaction

\* robinhoodAPI.py lines 163-243, one pass of the innermost loop:
\* login_with_cache outside the try, then (real run only) the market order
\* and, when it returned None, the limit order
robinhood_transaction ==
    /\ Enter("robinhood")
    /\ \E cached \in BOOLEAN :
         IF ~cached
         THEN /\ Escape
              /\ tlast' = [calls |-> << >>, msg |-> "none"]
         ELSE /\ Advance
              /\ IF treq.dry
                 THEN tlast' = [calls |-> << >>, msg |-> "dry"]
                 ELSE \E market \in {"order", "none", "raise"} :
                        CASE market = "order" ->
                               tlast' = [calls |-> <<Call("order", TRUE, market)>>,
                                         msg |-> "status"]
                          [] market = "raise" ->
                               tlast' = [calls |-> <<Call("order", TRUE, market)>>,
                                         msg |-> "error"]
                          [] market = "none" ->
                               \E limit \in {"order", "none", "raise", "no_price"} :
                                 tlast' =
                                   [calls |->
                                      IF limit = "no_price"
                                      THEN <<Call("order", TRUE, market)>>
                                      ELSE <<Call("order", TRUE, market),
                                             Call("limit order", TRUE, limit)>>,
                                    msg |-> IF limit = "order" THEN "status" ELSE "error"]
    /\ UNCHANGED <<tbroker, treq, tsess, tjson>>
    /\ UNCHANGED not_transaction

\* fennelAPI.py lines 148-174, one pass of the innermost loop
fennel_transaction ==
    /\ Enter("fennel")
    /\ \E out \in {"order", "raise"} :
         tlast' = [calls |-> <<Call("place_order", ~treq.dry, out)>>,
                   msg |-> IF out = "raise" THEN "error" ELSE "status"]
    /\ Advance
    /\ UNCHANGED <<tbroker, treq, tsess, tjson>>
    /\ UNCHANGED not_transaction

\* publicAPI.py lines 143-164, one pass of the innermost loop
public_transaction ==
    /\ Enter("public")
    /\ \E out \in {"order", "raise"} :
         tlast' = [calls |-> <<Call("place_order", ~treq.dry, out)>>,
                   msg |-> IF out = "raise" THEN "error" ELSE "status"]
    /\ Advance
    /\ UNCHANGED <<tbroker, treq, tsess, tjson>>
    /\ UNCHANGED not_transaction

\* fidelityAPI.py lines 924-949 with FidelityAutomation.transaction
\* (493-689), one pass of the inner loop of fidelity_transaction on a page
\* that answers: the ticket is filled in and "Preview order" clicked (606);
\* a missing "Place order" button (609-651), a preview that differs
\* (654-666) and a timeout (686-689) return (False, message); "Place order"
\* is clicked only under `if not dry` (669-673).
Order ==
    /\ Enter("fidelity")
    /\ \E page \in {"preview", "error", "mismatch", "timeout"},
          received \in BOOLEAN :
         CASE page = "timeout" ->
                tlast' = [calls |-> << >>, msg |-> "error"]
           [] page \in {"error", "mismatch"} ->
                tlast' = [calls |-> <<Call("Preview order", FALSE, page)>>,
                          msg |-> "error"]
           [] OTHER ->
                IF ~treq.dry
                THEN tlast' = [calls |-> <<Call("Preview order", FALSE, page),
                                           Call("Place order", TRUE,
                                                IF received THEN "received"
                                                ELSE "timeout")>>,
                               msg |-> IF received THEN "status" ELSE "error"]
                ELSE tlast' = [calls |-> <<Call("Preview order", FALSE, page)>>,
                               msg |-> "dry"]
    /\ Advance

\* fidelity_transaction's try (914-953) spans both loops: page.reload() (922)
\* is awaited once per symbol, before the accounts, and when it raises the
\* handler of 950-953 returns None with the remaining symbols not tried
transaction ==
    /\ \E reload \in {"ok", "raise"} :
         IF reload = "raise" /\ tpos.k = 1 /\ tpos.a = 1
         THEN /\ tbroker = "fidelity"
              /\ tstate = "running"
              /\ tstate' = "returned"
              /\ tlast' = [calls |-> << >>, msg |-> "none"]
              /\ UNCHANGED <<tpos, tattempts>>
         ELSE Order
    /\ UNCHANGED <<tbroker, treq, tsess, tjson>>
    /\ UNCHANGED not_transaction

TxnNext ==
    \/ transaction
    \/ tradier_transaction
    \/ schwab_transaction
    \/ robinhood_transaction
    \/ fennel_transaction
    \/ public_transaction

InitTxn == DispatchIdle /\ ParseIdle /\ TxnInit /\ InitIdle /\ FidIdle /\ HoldIdle /\ RelayIdle /\ AccountIdle /\ StoreIdle /\ RequestsIdle

SpecTxn == InitTxn /\ [][TxnNext]_vars

----------------------------------------------------------------------------
(* Claims on SpecTxn *)

\* C4: with dry_run = true, no loop body of any adapter's transaction makes
\* an order call that can move money (a Tradier POST, a Robinhood order, a
\* Fidelity click on "Place order", a Schwab/Fennel/Public call with the dry
\* flag false).
C4_DryRunNeverSubmits ==
    treq.dry => \A i \in DOMAIN tlast.calls : ~tlast.calls[i].real

\* a dry request whose transaction returned after going through two symbols
\* and more than one account, the last body having made a (dry) order call
C4_Witness ==
    /\ treq.dry
    /\ tstate = "returned"
    /\ Len(treq.stocks) = 2
    /\ Len(tattempts) >= 4
    /\ tlast.calls # << >>

RECURSIVE Sum(_)
Sum(seq) == IF seq = << >> THEN 0 ELSE Head(seq) + Sum(Tail(seq))

\* the (symbol, key, account) combinations of the request over the session
Combinations == Len(treq.stocks) * Sum(tsess)

\* C11: in every adapter's transaction no fault of one (symbol, account)
\* combination leaves the function, and when the function has returned every
\* combination of the request has been attempted.
C11_FailureContained ==
    /\ tstate # "raised"
    /\ tstate = "returned" => Len(tattempts) = Combinations

\* the (symbol, key, account) of the i-th pass of the innermost loop
Attempt(i) ==
    <<treq.stocks[tattempts[i][1]], tattempts[i][2], tattempts[i][3]>>

\* C27: for a request without a repeated symbol, the transaction of Fennel,
\* Public and Tradier never goes twice through the same (symbol, key,
\* account), goes through (s1, key, account) before (s2, key, account) when
\* s1 is before s2 in the request, and has gone through every combination
\* when it returns.
C27_EveryCombinationOnceInOrder ==
    (/\ tbroker \in {"fennel", "public", "tradier"}
     /\ \A m, n \in DOMAIN treq.stocks : m # n => treq.stocks[m] # treq.stocks[n])
    => /\ \A i, j \in DOMAIN tattempts : i # j => Attempt(i) # Attempt(j)
       /\ \A i, j \in DOMAIN tattempts :
            (/\ tattempts[i][2] = tattempts[j][2]
             /\ tattempts[i][3] = tattempts[j][3]
             /\ tattempts[i][1] < tattempts[j][1]) => i < j
       /\ tstate = "returned" =>
            \A m \in DOMAIN treq.stocks, k \in DOMAIN tsess :
                \A a \in 1..tsess[k] :
                    \E i \in DOMAIN tattempts :
                        Attempt(i) = <<treq.stocks[m], k, a>>

\* two symbols over two keys with three accounts: six passes, then the return
C27_Witness ==
    /\ tbroker = "tradier"
    /\ tstate = "returned"
    /\ treq.stocks = <<"AAPL", "MSFT">>
    /\ tsess = <<2, 1>>
    /\ Len(tattempts) = 6
    /\ Attempt(1) = <<"AAPL", 1, 1>>
    /\ Attempt(6) = <<"MSFT", 2, 1>>

\* C36: a pass of schwab_transaction's innermost loop makes at most two
\* order calls; a second one only after a first that reported failure, with
\* the same dry_run flag; no call follows a successful one; and for a
\* request without a repeated symbol no (symbol, key, account) has two
\* passes.
C36_AtMostTwoAttempts ==
    tbroker = "schwab" =>
        /\ Len(tlast.calls) <= 2
        /\ Len(tlast.calls) = 2 =>
              /\ tlast.calls[1].result = "failure"
              /\ tlast.calls[2].real = tlast.calls[1].real
        /\ \A i \in 1..(Len(tlast.calls) - 1) : tlast.calls[i].result # "success"
        /\ (\A m, n \in DOMAIN treq.stocks : m # n => treq.stocks[m] # treq.stocks[n])
              => \A i, j \in DOMAIN tattempts : i # j => Attempt(i) # Attempt(j)

\* a real order whose verification failed and whose fallback went through,
\* on the second account of a key, after a pass that needed one call only
C36_Witness ==
    /\ tbroker = "schwab"
    /\ ~treq.dry
    /\ Len(tattempts) >= 2
    /\ Len(tlast.calls) = 2
    /\ tlast.calls[1].api = "trade_v2" /\ tlast.calls[1].result = "failure"
    /\ tlast.calls[2].api = "trade" /\ tlast.calls[2].result = "success"
    /\ tlast.calls[2].real

\* a dry order made once, its verification successful, and no fallback
C36_WitnessSuccess ==
    /\ tbroker = "schwab"
    /\ treq.dry
    /\ tstate = "returned"
    /\ Len(tlast.calls) = 1
    /\ tlast.calls[1].result = "success"
    /\ ~tlast.calls[1].real

\* C37: for an amount that is no whole number, no pass of
\* tradier_transaction, dry or real, makes an order call; every pass reports
\* the fractional-share error; no exception leaves the function, and when it
\* has returned every (symbol, key, account) has had its pass.
C37_FractionalNeverSubmitted ==
    (tbroker = "tradier" /\ ~treq.whole) =>
        /\ tlast.calls = << >>
        /\ tattempts # << >> => tlast.msg = "fractional"
        /\ tstate # "raised"
        /\ tstate = "returned" => Len(tattempts) = Combinations

\* a real order of a fractional amount, gone through two symbols and three
\* accounts, each pass with the error only
C37_Witness ==
    /\ tbroker = "tradier"
    /\ ~treq.whole
    /\ ~treq.dry
    /\ tstate = "returned"
    /\ Len(treq.stocks) = 2
    /\ tsess = <<2, 1>>
    /\ Len(tattempts) = 6
    /\ tlast.msg = "fractional"

\* the same in dry mode
C37_WitnessDry ==
    /\ tbroker = "tradier"
    /\ ~treq.whole
    /\ treq.dry
    /\ tstate = "returned"
    /\ Len(tattempts) >= 2
    /\ tlast.msg = "fractional"

----------------------------------------------------------------------------
(* <broker>_init: logging in the credential sets of one broker *)

InitBrokers == {"tradier", "schwab", "robinhood", "fennel", "public"}

\* credential sets as they stand between the commas of the stored string
Credentials == {"u1", "u2"}

CredLists == UNION {[1..n -> Credentials] : n \in 1..MaxCreds}

\* list.index(x) + 1: the first position that holds x
index(list, x) ==
    CHOOSE i \in DOMAIN list :
        list[i] = x /\ \A j \in 1..(i - 1) : list[j] # x

\* every credential set under the key "<uid>-<Broker>", without a number
name_unnumbered(broker, creds, pos) == 0

\* the number in the sub-account key "<uid>-<Broker> <n>" of the credential
\* set at pos (0: the key carries no number)
\*   tradier 77, schwab 40: accounts.index(account) + 1
\*   fennel 37, public 38:  enumerate index + 1
\*   robinhood 43:          f"{CURRENT_USER_ID}-Robinhood"
name(broker, creds, pos) ==
    CASE broker \in {"tradier", "schwab"} -> index(creds, creds[pos])
      [] broker = "robinhood" -> 0
      [] OTHER -> pos

\* the account number the broker reports for a logged-in credential set
AccountOf(cred) == <<"account of", cred>>

\* Brokerage.set_logged_in_object: the key's entry is replaced
set_logged_in_object(handles, key, obj) ==
    {h \in handles : h[1] # key} \cup {<<key, obj>>}

\* Brokerage.set_account_number: the account is added under the key
set_account_number(accts, key, an) == accts \cup {<<key, an>>}

\* the loop body ends (normally or by `continue`): next credential set, or
\* the return of the session after the last one
Continue(outcome) ==
    /\ ilast' = outcome
    /\ ipos' = ipos + 1
    /\ iret' = IF ipos = Len(icreds) THEN "session" ELSE "running"

\* `return None` from inside the loop
ReturnNone(outcome) ==
    /\ ilast' = outcome
    /\ iret' = "none"
    /\ UNCHANGED <<ipos, ihandles, iaccts, isucceeded>>

\* the credential set at ipos logged in and its account was recorded
LoggedIn(obj) ==
    LET key == name(ibroker, icreds, ipos) IN
    /\ ihandles' = set_logged_in_object(ihandles, key, obj)
    /\ iaccts' = set_account_number(iaccts, key, AccountOf(icreds[ipos]))
    /\ isucceeded' = isucceeded \cup {ipos}
    /\ Continue("logged_in")

InitInit ==
    /\ ibroker \in InitBrokers
    /\ icreds \in CredLists
    /\ ipos = 1
    /\ ihandles = {}
    /\ iaccts = {}
    /\ isucceeded = {}
    /\ ilast = "none"
    /\ icode = "not asked"
    /\ iret = "running"

\* tradier_init, lines 76-107, one credential set per step.  make_request
\* returns None when the broker rejects the token (status code not 200) and
\* the loop continues; when the request itself fails, make_request's handler
\* reads its unbound `response` (line 50) and that exception leaves
\* tradier_init, which has no try.
tradier_init ==
    /\ ibroker = "tradier"
    /\ iret = "running"
    /\ icode' = "not asked"
    /\ \E response \in {"profile", "rejected", "unreachable"} :
        CASE response = "profile" -> LoggedIn(icreds[ipos])
          [] response = "rejected" ->
                /\ Continue("login_failed")
                /\ UNCHANGED <<ihandles, iaccts, isucceeded>>
          [] OTHER ->
                /\ ilast' = "raised"
                /\ iret' = "raised"
                /\ UNCHANGED <<ipos, ihandles, iaccts, isucceeded>>
    /\ UNCHANGED <<ibroker, icreds>>
    /\ UNCHANGED not_init

\* schwab_init, lines 39-78, one credential set per step.  A login that
\* returns False, a login that raises, a credential set without a third
\* field (account[2]) and a failing get_account_info_v2 all end in the
\* handler of lines 73-76, which returns None.
schwab_init ==
    /\ ibroker = "schwab"
    /\ iret = "running"
    /\ icode' = "not asked"
    /\ \E logged_in \in BOOLEAN :
        IF logged_in
        THEN LoggedIn(icreds[ipos])
        ELSE ReturnNone("login_failed")
    /\ UNCHANGED <<ibroker, icreds>>
    /\ UNCHANGED not_init

\* robinhood_init, lines 42-82, one credential set per step.  The handle
\* stored is the robin_stocks module itself, whose session is the one of the
\* latest rh.login; an account number seen before is skipped (lines 62-63);
\* the handler of lines 77-80 returns None.
robinhood_init ==
    /\ ibroker = "robinhood"
    /\ iret = "running"
    /\ icode' = "not asked"
    /\ \E logged_in \in BOOLEAN :
        IF logged_in
        THEN LET key == name(ibroker, icreds, ipos)
                 an == AccountOf(icreds[ipos])
                 all_account_numbers == {a[2] : a \in iaccts}
             IN  /\ ihandles' = set_logged_in_object(ihandles, key, icreds[ipos])
                 /\ iaccts' = IF an \in all_account_numbers
                              THEN iaccts
                              ELSE set_account_number(iaccts, key, an)
                 /\ isucceeded' = isucceeded \cup {ipos}
                 /\ Continue("logged_in")
        ELSE ReturnNone("login_failed")
    /\ UNCHANGED <<ibroker, icreds>>
    /\ UNCHANGED not_init

\* the login with the code made whatever the wait for the code gave
Logged_without_code(login, otp_code, relogin) ==
    \/ login = "ok"
    \/ login = "2FA" /\ relogin = "ok"

\* fennel_init 45-77, public_init 47-77: the first login went through, or it
\* asked for a code, the wait gave one, and the login with it went through
Logged(login, otp_code, relogin) ==
    \/ login = "ok"
    \/ login = "2FA" /\ otp_code = "code" /\ relogin = "ok"

\* The loop body shared by fennel_init (37-94) and public_init (38-90) when
\* called from the bot: a first login, which may ask for a code ("2FA");
\* then the wait for the code, which may end without one; then the login
\* with the code.  After the login the handle is stored, and only then the
\* accounts are fetched.  Every failure ends in `continue`.
CodeLogin ==
    \E login \in {"ok", "2FA", "error"}, otp_code \in {"code", "none"},
       relogin \in {"ok", "error"}, accounts \in {"ok", "error"} :
        LET logged == Logged(login, otp_code, relogin)
            key == name(ibroker, icreds, ipos)
        IN  /\ icode' = IF login = "2FA" THEN otp_code ELSE "not asked"
            /\ IF ~logged
               THEN /\ Continue(IF login = "2FA" /\ otp_code = "none"
                                THEN "no_code" ELSE "login_failed")
                    /\ UNCHANGED <<ihandles, iaccts, isucceeded>>
               ELSE IF accounts = "ok"
               THEN LoggedIn(icreds[ipos])
               ELSE /\ ihandles' = set_logged_in_object(ihandles, key, icreds[ipos])
                    /\ Continue("accounts_failed")
                    /\ UNCHANGED <<iaccts, isucceeded>>

fennel_init ==
    /\ ibroker = "fennel"
    /\ iret = "running"
    /\ CodeLogin
    /\ UNCHANGED <<ibroker, icreds>>
    /\ UNCHANGED not_init

public_init ==
    /\ ibroker = "public"
    /\ iret = "running"
    /\ CodeLogin
    /\ UNCHANGED <<ibroker, icreds>>
    /\ UNCHANGED not_init

InitNext ==
    \/ tradier_init
    \/ schwab_init
    \/ robinhood_init
    \/ fennel_init
    \/ public_init

InitInits == DispatchIdle /\ ParseIdle /\ TxnIdle /\ InitInit /\ FidIdle /\ HoldIdle /\ RelayIdle /\ AccountIdle /\ StoreIdle /\ RequestsIdle

SpecInit == InitInits /\ [][InitNext]_vars

----------------------------------------------------------------------------
(* Claims on SpecInit *)

\* the positions whose loop body has run
Attempted ==
    CASE iret = "session" -> 1..Len(icreds)
      [] iret \in {"none", "raised"} -> 1..ipos
      [] OTHER -> 1..(ipos - 1)

\* C10: when an adapter's init has ended over a list of credential sets of
\* which some failed to log in, it has returned a session, and that session
\* holds, for every credential set that logged in, its login handle and its
\* account under that credential set's sub-account key.
C10_PartialFailureTolerated ==
    (iret \in {"session", "none", "raised"} /\ Attempted \ isucceeded # {}) =>
        \A p \in isucceeded :
            /\ iret = "session"
            /\ <<name(ibroker, icreds, p), icreds[p]>> \in ihandles
            /\ <<name(ibroker, icreds, p), AccountOf(icreds[p])>> \in iaccts

\* the sub-account keys under which a login handle is held
HandleKeys == {h[1] : h \in ihandles}

\* C28: within one call of schwab_init, tradier_init or robinhood_init, the
\* credential sets that logged in hold as many sub-account keys as there are
\* positions (two positions never share a key, also when they hold the same
\* credential string), and no key holds the accounts of two credential sets.
C28_OneKeyPerPosition ==
    ibroker \in {"schwab", "tradier", "robinhood"} =>
        /\ Cardinality(HandleKeys) = Cardinality(isucceeded)
        /\ \A a \in iaccts, b \in iaccts : a[1] = b[1] => a[2] = b[2]

\* C35: no call of make_request raises: in tradier_init, whose only call
\* outside a try is make_request("user/profile", account) (line 79), no loop
\* body ends with an exception, whatever the request met.
C35_MakeRequestNeverRaises ==
    ibroker = "tradier" => (ilast # "raised" /\ iret # "raised")

----------------------------------------------------------------------------
(* fidelityAPI.py: fidelity_run over the credential sets of one user *)

FidInit ==
    /\ fcmd \in {"_holdings", "_transaction"}
    /\ fcreds \in CredLists
    /\ fpos = 1
    /\ fstep = "init"
    /\ fbrowser = [p \in DOMAIN fcreds |-> [state |-> "none", closes |-> 0]]
    /\ fsteps = {}
    /\ flast = [outcome |-> "none"]

\* FidelityAutomation.close_browser (139-150) called on the browser of fpos
close_browser ==
    fbrowser' = [fbrowser EXCEPT ![fpos] =
                    [state |-> "closed", closes |-> @.closes + 1]]

\* fidelity_run's for-loop (725) moves to the next credential set, or
\* returns (752)
NextAccount ==
    /\ fpos' = fpos + 1
    /\ fstep' = IF fpos = Len(fcreds) THEN "done" ELSE "init"

\* an exception leaves fidelity_run
FidRaise ==
    /\ fstep' = "raised"
    /\ UNCHANGED fpos

\* what fidelity_init (755-841) comes to, from what its calls gave
InitOutcome(initialize, login, sms_code, account_dict) ==
    CASE initialize = "error" -> "init_failed"
      [] login = "error_page" -> "login_failed"
      [] login = "need_2FA" /\ sms_code = "none" -> "no_code"
      [] account_dict = "none" -> "no_accounts"
      [] OTHER -> "returned"

\* fidelity_init, lines 755-841, for the credential set at fpos: a browser
\* is created and initialised, the login runs (with the code step when the
\* first step asks for it; what login_2FA returns is not looked at, lines
\* 797 and 813), the handle is stored, the accounts are read, and on every
\* path the finally clause of 839-841 calls close_browser.  After a failed
\* initialize() the browser is already closed (86-89) and that close may
\* raise, which leaves fidelity_init and fidelity_run.
fidelity_init ==
    /\ fstep = "init"
    /\ \E initialize \in {"ok", "error"},
          login \in {"logged_in", "need_2FA", "error_page"},
          sms_code \in {"code", "none"}, login_2FA \in BOOLEAN,
          account_dict \in {"accounts", "none"}, close_raises \in BOOLEAN :
        LET outcome == InitOutcome(initialize, login, sms_code, account_dict)
        IN  /\ flast' = [outcome |-> outcome,
                         sms_code |-> IF initialize = "ok" /\ login = "need_2FA"
                                      THEN sms_code ELSE "not asked",
                         handle |-> outcome \in {"no_accounts", "returned"},
                         login_2FA |-> IF outcome \in {"no_accounts", "returned"}
                                          /\ login = "need_2FA"
                                       THEN IF login_2FA THEN "true" ELSE "false"
                                       ELSE "not called"]
            /\ close_browser
            /\ fsteps' = fsteps \cup
                  {[fn |-> "fidelity_init", pos |-> fpos, closed |-> FALSE]}
            /\ CASE outcome = "returned" ->
                        /\ fstep' = "action"
                        /\ UNCHANGED fpos
                 [] outcome = "init_failed" /\ close_raises -> FidRaise
                 [] OTHER -> NextAccount
    /\ UNCHANGED <<fcmd, fcreds>>
    /\ UNCHANGED not_fidelity

\* fidelity_holdings, lines 844-891: reads the account_dict kept in the
\* FidelityAutomation object, prints the holdings, and in its finally clause
\* (889-891) calls close_browser; a close of a closed browser may raise.
fidelity_holdings ==
    /\ fstep = "action"
    /\ fcmd = "_holdings"
    /\ fsteps' = fsteps \cup
          {[fn |-> "fidelity_holdings", pos |-> fpos,
            closed |-> fbrowser[fpos].closes > 0]}
    /\ close_browser
    /\ \E close_raises \in BOOLEAN :
          IF fbrowser[fpos].state = "closed" /\ close_raises
          THEN FidRaise
          ELSE NextAccount
    /\ UNCHANGED <<fcmd, fcreds, flast>>
    /\ UNCHANGED not_fidelity

\* fidelity_transaction, lines 894-956: page.reload() (922) and the orders
\* need the page; on a closed browser the reload raises, the handler of
\* 950-953 returns None, and the finally clause (954-956) calls close_browser.
fidelity_transaction ==
    /\ fstep = "action"
    /\ fcmd = "_transaction"
    /\ fsteps' = fsteps \cup
          {[fn |-> "fidelity_transaction", pos |-> fpos,
            closed |-> fbrowser[fpos].closes > 0]}
    /\ close_browser
    /\ \E close_raises \in BOOLEAN :
          IF fbrowser[fpos].state = "closed" /\ close_raises
          THEN FidRaise
          ELSE NextAccount
    /\ UNCHANGED <<fcmd, fcreds, flast>>
    /\ UNCHANGED not_fidelity

FidNext ==
    \/ fidelity_init
    \/ fidelity_holdings
    \/ fidelity_transaction

InitFid == DispatchIdle /\ ParseIdle /\ TxnIdle /\ InitIdle /\ FidInit /\ HoldIdle /\ RelayIdle /\ AccountIdle /\ StoreIdle /\ RequestsIdle

SpecFid == InitFid /\ [][FidNext]_vars

----------------------------------------------------------------------------
(* Claims on SpecFid *)

\* C8: no holdings or transaction step of fidelity_run runs against a
\* browser on which close_browser has already been called.
C8_ActionBeforeTeardown ==
    \A s \in fsteps :
        s.fn \in {"fidelity_holdings", "fidelity_transaction"} => ~s.closed

\* C29: the fidelity_init that ran last stored a login handle, or returned
\* the session, only when the login had fully succeeded: the first step
\* reached the logged-in page, or login_2FA returned True.
C29_HandleOnlyAfterFullLogin ==
    (flast.outcome # "none" /\ (flast.handle \/ flast.outcome = "returned")) =>
        flast.login_2FA \in {"not called", "true"}

\* C31: close_browser is called at most once on the browser of every
\* credential set, exactly once on the browser of every credential set
\* fidelity_run is through with, and no exception of a failing close leaves
\* fidelity_run before the last credential set.
C31_BrowserClosedOnce ==
    /\ \A p \in DOMAIN fbrowser : fbrowser[p].closes <= 1
    /\ \A p \in 1..(fpos - 1) : fbrowser[p].closes = 1
    /\ fstep # "raised"

----------------------------------------------------------------------------
(* Logins that may wait for a code: <broker>_init and fidelity_run *)

InitLogin == InitInits \/ InitFid

LoginNext == InitNext \/ FidNext

SpecLogin == InitLogin /\ [][LoginNext]_vars

----------------------------------------------------------------------------
(* Claims on SpecLogin *)

\* C14: a loop body whose wait for the code ended without a code records no
\* login handle for its credential set, lets no exception leave the init,
\* and leaves the loop at the next credential set (Fennel, Public), or
\* fidelity_run at its next credential set (Fidelity).
C14_NoCodeIsLoginFailure ==
    [][/\ (iret = "running" /\ ipos' # ipos /\ icode' = "none")
            => /\ ihandles' = ihandles
               /\ \A h \in ihandles' : h[1] # name(ibroker, icreds, ipos)
               /\ iret' \in {"running", "session"}
               /\ ipos' = ipos + 1
       /\ (fstep = "init" /\ flast'.sms_code = "none")
            => /\ ~flast'.handle
               /\ fstep' \in {"init", "done"}
               /\ fpos' = fpos + 1]_vars

\* the second of three credential sets got no code, the first had logged in
C14_Witness ==
    /\ ibroker \in {"fennel", "public"}
    /\ Len(icreds) = 3
    /\ ipos = 3
    /\ icode = "none"
    /\ ilast = "no_code"
    /\ isucceeded = {1}
    /\ \E h \in ihandles : h[1] = 1

----------------------------------------------------------------------------
(* <broker>_holdings: tradier, schwab, robinhood, fennel, public *)

HoldBrokers == {"tradier", "schwab", "robinhood", "fennel", "public"}

HoldInit ==
    /\ hbroker \in HoldBrokers
    /\ hsess \in Sessions
    /\ hpos = [k |-> 1, a |-> 1]
    /\ hqueried = << >>
    /\ hlast = [query |-> "none", msg |-> "none"]
    /\ hflushed = 0
    /\ hstate = "running"

\* for key in keys: for account in accounts(key)
HoldNextPos(p) ==
    IF p.a < hsess[p.k] THEN [p EXCEPT !.a = p.a + 1]
    ELSE [k |-> p.k + 1, a |-> 1]

\* `continue`, or the end of the loop body; after the last account the
\* function awaits printHoldings once and returns
HoldAdvance ==
    /\ hpos' = HoldNextPos(hpos)
    /\ IF HoldNextPos(hpos).k > Len(hsess)
       THEN /\ hstate' = "returned"
            /\ hflushed' = hflushed + 1
       ELSE /\ hstate' = "running"
            /\ UNCHANGED hflushed

\* an exception leaves the holdings function
HoldEscape ==
    /\ hstate' = "raised"
    /\ UNCHANGED <<hpos, hflushed>>

\* the loop body of an account is entered
HoldEnter ==
    hqueried' = Append(hqueried, <<hpos.k, hpos.a>>)

\* what a loop body did: what the positions query gave, what was sent
Held(query, msg) == [query |-> query, msg |-> msg]

\* tradierAPI.py lines 119-169, one account per step: make_request inside
\* the try; None (status, fault) and "null" positions `continue`; a request
\* that cannot be sent raises out of make_request (line 50) into the handler
\* of 166-169
tradier_holdings ==
    /\ hbroker = "tradier"
    /\ hstate = "running"
    /\ HoldEnter
    /\ \E out \in {"positions", "null", "none", "unreachable"} :
         hlast' = Held(out, IF out = "unreachable" THEN "error" ELSE "none")
    /\ HoldAdvance
    /\ UNCHANGED <<hbroker, hsess>>
    /\ UNCHANGED not_holdings

\* schwabAPI.py lines 89-108, one account per step: get_account_info_v2 is
\* called once per key (line 91), before the try of line 93; reading the
\* positions of an account is inside it
schwab_holdings ==
    /\ hbroker = "schwab"
    /\ hstate = "running"
    /\ \E all_holdings \in {"info", "raise"}, out \in {"positions", "raise"} :
         IF hpos.a = 1 /\ all_holdings = "raise"
         THEN /\ HoldEscape
              /\ hlast' = Held("none", "none")
              /\ UNCHANGED hqueried
         ELSE /\ HoldEnter
              /\ hlast' = Held(out, IF out = "raise" THEN "error" ELSE "none")
              /\ HoldAdvance
    /\ UNCHANGED <<hbroker, hsess>>
    /\ UNCHANGED not_holdings

\* robinhoodAPI.py lines 93-140, one account per step: with a pickle file,
\* login_with_cache (line 102) is called outside any try; without one, line
\* 105 reads the local `creds` before it is assigned, and the handler of
\* 117-119 prints and continues; the positions query is inside a try
robinhood_holdings ==
    /\ hbroker = "robinhood"
    /\ hstate = "running"
    /\ HoldEnter
    /\ \E isfile \in BOOLEAN, cached \in BOOLEAN, out \in {"positions", "raise"} :
         CASE isfile /\ ~cached ->
                /\ HoldEscape
                /\ hlast' = Held("none", "none")
           [] ~isfile ->
                /\ HoldAdvance
                /\ hlast' = Held("none", "none")
           [] OTHER ->
                /\ HoldAdvance
                /\ hlast' = Held(out, IF out = "raise" THEN "error" ELSE "none")
    /\ UNCHANGED <<hbroker, hsess>>
    /\ UNCHANGED not_holdings

\* fennelAPI.py lines 106-125, one account per step
fennel_holdings ==
    /\ hbroker = "fennel"
    /\ hstate = "running"
    /\ HoldEnter
    /\ \E out \in {"positions", "raise"} :
         hlast' = Held(out, IF out = "raise" THEN "error" ELSE "none")
    /\ HoldAdvance
    /\ UNCHANGED <<hbroker, hsess>>
    /\ UNCHANGED not_holdings

\* publicAPI.py lines 102-120, one account per step
public_holdings ==
    /\ hbroker = "public"
    /\ hstate = "running"
    /\ HoldEnter
    /\ \E out \in {"positions", "raise"} :
         hlast' = Held(out, IF out = "raise" THEN "error" ELSE "none")
    /\ HoldAdvance
    /\ UNCHANGED <<hbroker, hsess>>
    /\ UNCHANGED not_holdings

HoldNext ==
    \/ tradier_holdings
    \/ schwab_holdings
    \/ robinhood_holdings
    \/ fennel_holdings
    \/ public_holdings

InitHold == DispatchIdle /\ ParseIdle /\ TxnIdle /\ InitIdle /\ FidIdle /\ HoldInit /\ RelayIdle /\ AccountIdle /\ StoreIdle /\ RequestsIdle

SpecHold == InitHold /\ [][HoldNext]_vars

----------------------------------------------------------------------------
(* Claims on SpecHold *)

\* C12: in every adapter's holdings no fault of one account or sub-account
\* leaves the function, and when the function has returned every account of
\* the session has been gone through and the report was flushed once.
C12_HoldingsFailureContained ==
    /\ hstate # "raised"
    /\ hstate = "returned" => Len(hqueried) = Sum(hsess) /\ hflushed = 1

----------------------------------------------------------------------------
(* Code relay: logins waiting for a 2FA code sent over chat *)

\* the chat users: the one whose logins wait, and another one
RelayUsers == {"u", "v"}

\* the codes a user may send
Codes == {"111111", "222222"}

\* the logins that ask for a code over chat: a credential set of Fennel or
\* of Public (fennel 58-64, public 62-67); here Fennel has two credential
\* sets and Public has one
RelayLogins == {<<"fennel", 1>>, <<"fennel", 2>>, <<"public", 1>>}

\* the session label a login passes to the relay: the sub-account key
\* "<uid>-<Broker> <n>" without its user part (fennel 38, public 39)
SessionLabel(login) == <<login[1], name(login[1], << >>, login[2])>>

\* "timeout = 300  # 5 minutes" (fennel 60, public 64)
timeout == 300

\* the clock moves in steps of half the timeout
Step == timeout \div 2

\* a submission that found no challenge
NoSubmission == [identity |-> "nobody", login |-> <<"none", 0>>, at |-> 0]

\* a pending challenge: its key (identity, label), its deadline, and the
\* login that waits on it
Challenge(identity, login, now, wait) ==
    [identity |-> identity,
     label    |-> SessionLabel(login),
     login    |-> login,
     deadline |-> now + wait,
     result   |-> "pending",
     code     |-> "none",
     from     |-> NoSubmission]

\* the relay correlates a submission with a challenge by the user identity
\* alone
Matches_identity_only(c, identity, label) ==
    c.result = "pending" /\ c.identity = identity

\* the relay correlates a submission with a challenge by the compound key
\* (user identity, session label)
Matches(c, identity, label) ==
    c.result = "pending" /\ c.identity = identity /\ c.label = label

RelayInit ==
    /\ rchal = << >>
    /\ rclock = 0
    /\ rstate = "running"

\* await_code(user_identity, session_label, code_length, timeout): a login
\* of user "u" registers a challenge and waits
await_code ==
    /\ rstate = "running"
    /\ Len(rchal) < MaxChallenges
    /\ \E login \in RelayLogins :
         rchal' = Append(rchal, Challenge("u", login, rclock, timeout))
    /\ UNCHANGED <<rclock, rstate>>
    /\ UNCHANGED not_relay

\* submit_code(user_identity, session_label, code): a user answers the
\* prompt of one login; the code goes to the pending challenges with that
\* key, and a challenge whose deadline has passed times out instead
submit_code ==
    /\ rstate = "running"
    /\ \E identity \in RelayUsers, login \in RelayLogins, code \in Codes :
         rchal' = [i \in DOMAIN rchal |->
                     IF Matches(rchal[i], identity, SessionLabel(login))
                     THEN IF rclock > rchal[i].deadline
                          THEN [rchal[i] EXCEPT !.result = "timeout"]
                          ELSE [rchal[i] EXCEPT
                                  !.result = "code",
                                  !.code = code,
                                  !.from = [identity |-> identity,
                                            login |-> login,
                                            at |-> rclock]]
                     ELSE rchal[i]]
    /\ UNCHANGED <<rclock, rstate>>
    /\ UNCHANGED not_relay

\* the wait of a pending challenge ends at its deadline without a code
timeout_elapsed ==
    /\ rstate = "running"
    /\ \E i \in DOMAIN rchal :
         /\ rchal[i].result = "pending"
         /\ rclock >= rchal[i].deadline
         /\ rchal' = [rchal EXCEPT ![i].result = "timeout"]
    /\ UNCHANGED <<rclock, rstate>>
    /\ UNCHANGED not_relay

\* time passes
tick ==
    /\ rstate = "running"
    /\ rclock < MaxTicks * Step
    /\ rclock' = rclock + Step
    /\ UNCHANGED <<rchal, rstate>>
    /\ UNCHANGED not_relay

RelayNext ==
    \/ await_code
    \/ submit_code
    \/ timeout_elapsed
    \/ tick

InitRelay == DispatchIdle /\ ParseIdle /\ TxnIdle /\ InitIdle /\ FidIdle /\ HoldIdle /\ RelayInit /\ AccountIdle /\ StoreIdle /\ RequestsIdle

SpecRelay == InitRelay /\ [][RelayNext]_vars

----------------------------------------------------------------------------
(* Claims on SpecRelay *)

C15_WitnessLate ==
    /\ Len(rchal) = 2
    /\ rchal[1].result = "timeout"
    /\ rclock > rchal[1].deadline
    /\ rchal[2].result = "code"

\* C32: no two challenges that are pending at the same time have the same
\* key (user identity, session label).
C32_PendingKeysDistinct ==
    \A i \in DOMAIN rchal, j \in DOMAIN rchal :
        (i < j /\ rchal[i].result = "pending" /\ rchal[j].result = "pending")
            => <<rchal[i].identity, rchal[i].label>>
                 # <<rchal[j].identity, rchal[j].label>>

----------------------------------------------------------------------------
(* argParser on the group aliases all, day1, most, fast *)

\* the group aliases of lines 267-276 and 294-301
Aliases == {"all", "day1", "most", "fast"}

\* the words of a command that names a group of brokers
AliasTokens == {"holdings", "buy", "1", "aapl", "not", "tradier"} \cup Aliases

AliasArgLists == UNION { [1..n -> AliasTokens] : n \in 0..MaxAliasArgs }

AliasInit ==
    /\ args \in AliasArgLists
    /\ parsed = [state |-> "idle"]

InitAlias == DispatchIdle /\ AliasInit /\ TxnIdle /\ InitIdle /\ FidIdle /\ HoldIdle /\ RelayIdle /\ AccountIdle /\ StoreIdle /\ RequestsIdle

SpecAlias == InitAlias /\ [][argParser_call]_vars

\* the word at the broker position of a parsed command: args[1] of the
\* holdings form (line 267), args[3] of the buy/sell form (line 294)
BrokerWord(a) ==
    IF lower(a[1]) = "holdings" THEN lower(a[2]) ELSE lower(a[4])

----------------------------------------------------------------------------
(* Claims on SpecAlias *)

\* C18: a command whose broker word is a group alias is parsed to a broker
\* list that depends on the alias alone: "all" gives SUPPORTED_BROKERS in
\* its order, "most" gives that list without vanguard and nothing else
\* missing, "day1" and "fast" give duplicate-free lists of supported
\* brokers, and the list is the one that both the plain holdings command
\* and the plain buy command of that alias are parsed to.
C18_AliasExpansionFixed ==
    (parsed.state = "returned" /\ BrokerWord(args) \in Aliases) =>
        LET w == BrokerWord(args)
            b == parsed.order.brokers
        IN /\ w = "all" => b = SUPPORTED_BROKERS
           /\ w = "most" =>
                /\ Len(b) = Len(SUPPORTED_BROKERS) - 1
                /\ "vanguard" \notin Range(b)
                /\ b = SelectSeq(SUPPORTED_BROKERS, LAMBDA x : x \in Range(b))
           /\ w \in {"day1", "fast"} =>
                /\ Range(b) \subseteq Range(SUPPORTED_BROKERS)
                /\ Cardinality(Range(b)) = Len(b)
                /\ Range(DAY1_BROKERS) \subseteq Range(b)
           /\ b = argParser(<<"holdings", w>>).order.brokers
           /\ b = argParser(<<"buy", "1", "aapl", w>>).order.brokers

\* a buy of the "fast" group, parsed to the day-one brokers and robinhood
C18_Witness ==
    /\ parsed.state = "returned"
    /\ args = <<"buy", "1", "aapl", "fast">>
    /\ Len(parsed.order.brokers) = Len(DAY1_BROKERS) + 1
    /\ "robinhood" \in Range(parsed.order.brokers)

\* a holdings command of the "most" group with an excluded broker
C18_WitnessHoldings ==
    /\ parsed.state = "returned"
    /\ args = <<"holdings", "most", "not", "tradier">>
    /\ Len(parsed.order.brokers) = 10
    /\ parsed.order.notbrokers = <<"tradier">>

\* C24: every broker of the broker list and of the excluded list of a
\* request that argParser returns is one of SUPPORTED_BROKERS.
C24_OnlySupportedBrokers ==
    parsed.state = "returned" =>
        /\ Range(parsed.order.brokers) \subseteq Range(SUPPORTED_BROKERS)
        /\ Range(parsed.order.notbrokers) \subseteq Range(SUPPORTED_BROKERS)

----------------------------------------------------------------------------
(* accountrsa: the listing of a user's stored brokers *)

\* len(broker)
StrLen(broker) ==
    CASE broker = "chase"      -> 5
      [] broker = "fennel"     -> 6
      [] broker = "fidelity"   -> 8
      [] broker = "firstrade"  -> 9
      [] broker = "public"     -> 6
      [] broker = "robinhood"  -> 9
      [] broker = "schwab"     -> 6
      [] broker = "tastytrade" -> 10
      [] broker = "tradier"    -> 7
      [] broker = "vanguard"   -> 8
      [] broker = "webull"     -> 6

\* Python values: a str of a given length, and a row of a SELECT (a tuple)
Str(what, n) == [type |-> "str", what |-> what, len |-> n]
Row(broker) == [type |-> "tuple", items |-> <<Str(broker, StrLen(broker))>>]

\* "SELECT broker FROM rsa_credentials WHERE user_id = ?": one row per
\* broker of the user (UNIQUE (user_id, broker), line 417), in any order
RowLists ==
    {r \in UNION {[1..n -> Range(SUPPORTED_BROKERS)] : n \in 0..MaxRows} :
        \A i, j \in DOMAIN r : i # j => r[i] # r[j]}

\* cursor.fetchall(): the rows as tuples (no row_factory is set)
fetchall(rows) == [i \in DOMAIN rows |-> Row(rows[i])]

\* len("Here are the accounts you have set up:\n"), line 663
HeaderLen == 39

\* Discord's character limit, lines 667-671
Limit == 2000

RECURSIVE SumLen(_)
SumLen(items) ==
    IF items = << >> THEN 0
    ELSE items[1].len + SumLen(Tail(items))

\* "\n".join(items): TypeError unless every item is a str
join(items) ==
    IF \E i \in DOMAIN items : items[i].type # "str"
    THEN [raised |-> "TypeError"]
    ELSE [raised |-> "no",
          value |-> Str("accounts", SumLen(items) + Len(items) - 1)]

\* text[i : j], as the characters from+1 .. to of the text
slice(text, i, j) ==
    [what |-> text.what,
     from |-> i + 1,
     to   |-> IF j < text.len THEN j ELSE text.len]

\* a text sent whole
whole(text) == slice(text, 0, text.len)

\* range(start, stop, step)
RECURSIVE range(_, _, _)
range(start, stop, step) ==
    IF start >= stop THEN << >>
    ELSE <<start>> \o range(start + step, stop, step)

\* lines 669-672: [account_message[i : i + 2000]
\*                 for i in range(0, len(account_message), 2000)]
parts(account_message) ==
    LET starts == range(0, account_message.len, Limit)
    IN [k \in DOMAIN starts |->
          slice(account_message, starts[k], starts[k] + Limit)]

AccountInit ==
    /\ arows \in RowLists
    /\ afetched = "none"
    /\ asent = << >>
    /\ astate = "called"

\* lines 640-686, the whole command
accountrsa ==
    /\ astate = "called"
    /\ \E select \in {"rows", "raise"} :
         /\ afetched' = select
         /\ IF select = "raise"
            THEN asent' = <<whole(Str("Error retrieving accounts", 27))>>
            ELSE LET accounts == fetchall(arows)
                     joined == join(accounts)
                 IN IF accounts = << >>
                    THEN asent' = <<whole(Str("You haven't set up any accounts yet.", 36))>>
                    ELSE IF joined.raised # "no"
                    THEN asent' = <<whole(Str("Error retrieving accounts", 27))>>
                    ELSE LET account_message ==
                                 Str("listing", HeaderLen + joined.value.len)
                         IN IF account_message.len > Limit
                            THEN asent' = parts(account_message)
                            ELSE asent' = <<whole(account_message)>>
    /\ astate' = "done"
    /\ UNCHANGED arows
    /\ UNCHANGED not_account

InitAcct == DispatchIdle /\ ParseIdle /\ TxnIdle /\ InitIdle /\ FidIdle /\ HoldIdle /\ RelayIdle /\ AccountInit /\ StoreIdle /\ RequestsIdle

SpecAcct == InitAcct /\ [][accountrsa]_vars

\* len(account_message) for the stored brokers, had the join been over strs
ListingLen(rows) ==
    HeaderLen + SumLen([i \in DOMAIN rows |-> Str(rows[i], StrLen(rows[i]))])
              + Len(rows) - 1

----------------------------------------------------------------------------
(* Claims on SpecAcct *)

----------------------------------------------------------------------------
(* rsaadd, removersa: the credential store rsa_credentials *)

\* ctx.author.id of the users
Users == {1, 2}

\* str(ctx.author.id), lines 590, 620 and 161
str(id) ==
    CASE id = 1 -> "1"
      [] id = 2 -> "2"

\* the broker argument as a user may type it ("None": left out)
BrokerWords == {"tradier", "Tradier", "fennel", "schwab", "etrade", "None"}

\* the credentials argument as a user may type it ("None": left out)
CredWords == {"tok", "tok2", "a@b.c", "u:p", "u:p:1234", "None"}

\* len(credentials.split(":"))
Fields(credentials) ==
    CASE credentials \in {"tok", "tok2", "a@b.c"} -> 1
      [] credentials = "u:p"                     -> 2
      [] credentials = "u:p:1234"                -> 3
      [] credentials = "u:p:d:1234"              -> 4

\* "@" in credentials
HasAt(credentials) == credentials = "a@b.c"

\* lines 548-578: the credential format rsaadd accepts for a broker
FormatOk(broker, credentials) ==
    CASE broker = "fennel"    -> HasAt(credentials) /\ Fields(credentials) = 1
      [] broker = "robinhood" -> Fields(credentials) = 3
      [] broker = "tradier"   -> Fields(credentials) = 1
      [] broker = "vanguard"  -> Fields(credentials) = 3
      [] broker = "webull"    -> Fields(credentials) = 4
      [] OTHER                -> Fields(credentials) = 2

\* broker.lower(), lines 544 and 611
broker_lower(broker) ==
    CASE broker = "Tradier" -> "tradier"
      [] OTHER -> broker

\* cipher_suite.encrypt: a Fernet token of the text, fresh at every call
encrypt_credential(credential, iv) ==
    [token |-> "fernet", iv |-> iv, text |-> credential]

\* cipher_suite.decrypt: the text of a token made with this key
decrypt_credential(encrypted_credential) == encrypted_credential.text

\* INSERT INTO rsa_credentials, without the ON CONFLICT clause
upsert_insert_only(table, id, user_id, broker, credentials) ==
    table \cup {[id |-> id, user_id |-> user_id, broker |-> broker,
                 credentials |-> credentials]}

\* lines 584-595: INSERT ... ON CONFLICT (user_id, broker) DO UPDATE SET
\* credentials = ?
upsert(table, id, user_id, broker, credentials) ==
    IF \E r \in table : r.user_id = user_id /\ r.broker = broker
    THEN {IF r.user_id = user_id /\ r.broker = broker
          THEN [r EXCEPT !.credentials = credentials]
          ELSE r : r \in table}
    ELSE table \cup {[id |-> id, user_id |-> user_id, broker |-> broker,
                      credentials |-> credentials]}

\* lines 615-620: DELETE FROM rsa_credentials WHERE user_id = ? AND broker = ?
delete(table, user_id, broker) ==
    {r \in table : ~(r.user_id = user_id /\ r.broker = broker)}

\* the rows "WHERE user_id = ? AND broker = ?" selects
Rows(table, user_id, broker) ==
    {r \in table : r.user_id = user_id /\ r.broker = broker}

\* fun_run lines 160-167: fetchone() of the lookup and decrypt_credential of
\* its first column; "none" when there is no row
Lookup(table, author_id, broker) ==
    LET found == Rows(table, str(author_id), broker)
    IN IF found = {} THEN {"none"}
       ELSE {decrypt_credential(r.credentials) : r \in found}

\* the brokers a row can be stored for, with the words above
StoreBrokers == {"tradier", "fennel", "schwab"}

StoreInit ==
    /\ ctable = {}
    /\ cnextid = 1
    /\ cack = [p \in Users \X StoreBrokers |-> "none"]
    /\ creply = "none"
    /\ ccount = 0
    /\ cstate = "running"

\* lines 532-602, the whole command
rsaadd ==
    /\ cstate = "running"
    /\ ccount < MaxCmds
    /\ ccount' = ccount + 1
    /\ \E author \in Users, dm \in BOOLEAN, word \in BrokerWords,
          credentials \in CredWords, execute \in {"ok", "raise"} :
         LET broker == broker_lower(word) IN
         IF ~dm
         THEN /\ creply' = "This command can only be used via DM."
              /\ UNCHANGED <<ctable, cnextid, cack>>
         ELSE IF \/ word = "None" \/ credentials = "None"
                 \/ ~Supported(broker)
                 \/ ~FormatOk(broker, credentials)
                 \/ execute = "raise"
         THEN /\ creply' = "Error adding account"
              /\ UNCHANGED <<ctable, cnextid, cack>>
         ELSE /\ ctable' = upsert(ctable, cnextid, str(author), broker,
                                  encrypt_credential(credentials, ccount))
              /\ cnextid' = IF Rows(ctable, str(author), broker) = {}
                            THEN cnextid + 1 ELSE cnextid
              /\ creply' = "Successfully added account"
              /\ cack' = [cack EXCEPT ![<<author, broker>>] = credentials]
    /\ UNCHANGED cstate
    /\ UNCHANGED not_store

\* lines 604-637, the whole command
removersa ==
    /\ cstate = "running"
    /\ ccount < MaxCmds
    /\ ccount' = ccount + 1
    /\ \E author \in Users, word \in BrokerWords \ {"None"} :
         LET broker == broker_lower(word) IN
         IF ~Supported(broker)
         THEN /\ creply' = "Error retrieving accounts"
              /\ UNCHANGED <<ctable, cack>>
         ELSE IF Rows(ctable, str(author), broker) # {}
         THEN /\ ctable' = delete(ctable, str(author), broker)
              /\ creply' = "Successfully removed account"
              /\ cack' = [cack EXCEPT ![<<author, broker>>] = "none"]
         ELSE /\ creply' = "No account found"
              /\ UNCHANGED <<ctable, cack>>
    /\ UNCHANGED <<cnextid, cstate>>
    /\ UNCHANGED not_store

StoreNext ==
    \/ rsaadd
    \/ removersa

InitStore == DispatchIdle /\ ParseIdle /\ TxnIdle /\ InitIdle /\ FidIdle /\ HoldIdle /\ RelayIdle /\ AccountIdle /\ StoreInit /\ RequestsIdle

SpecStore == InitStore /\ [][StoreNext]_vars

----------------------------------------------------------------------------
(* Claims on SpecStore *)

\* C21: after any rsaadd and removersa commands of any users, the store has
\* at most one row for a (user, broker), and the lookup for (user, broker)
\* gives, decrypted, exactly the credentials of the last rsaadd that was
\* acknowledged for the pair and not followed by an acknowledged removersa,
\* or nothing.
C21_StoreKeepsLatest ==
    \A author \in Users, broker \in StoreBrokers :
        /\ Cardinality(Rows(ctable, str(author), broker)) <= 1
        /\ Lookup(ctable, author, broker) = {cack[<<author, broker>>]}

\* a user replaced their tradier token and removed fennel again, while the
\* other user keeps a token of their own
C21_Witness ==
    /\ ccount = MaxCmds
    /\ creply = "Successfully added account"
    /\ \E author \in Users :
         /\ Lookup(ctable, author, "tradier") = {"tok2"}
         /\ \E r \in Rows(ctable, str(author), "tradier") :
              r.id = 1 /\ r.credentials.iv > 0

\* the number of colon-separated fields a broker's init reads of a
\* credential set: account[0..2] in schwab_init (51-53) and robinhood_init
\* (48-51), account[0..1] in public_init (50-51) and fidelity_init (792, a
\* third one only when present, 791), the whole string in fennel_init and
\* tradier_init
FieldsRead(broker) ==
    CASE broker \in {"schwab", "robinhood"} -> 3
      [] broker \in {"public", "fidelity"}  -> 2
      [] OTHER                              -> 1

\* C34: every row of the store holds credentials with at least the fields
\* the init of its broker reads.
C34_StoredFieldsSuffice ==
    \A r \in ctable :
        Fields(decrypt_credential(r.credentials)) >= FieldsRead(r.broker)

----------------------------------------------------------------------------
(* rsa and main: a request, from argParser to fun_run *)

\* the words of an rsa command
RsaTokens == {"holdings", "buy", "1", "aapl", "tradier", "fennel", "fid", "not"}

RsaArgLists == UNION { [1..n -> RsaTokens] : n \in 0..MaxRsaArgs }

RsaInit ==
    /\ args \in RsaArgLists
    /\ parsed = [state |-> "idle"]

\* line 486: an exception of argParser leaves rsa (the call is outside the
\* try of line 488); rsa goes on with the request argParser returned
Accepted(p) == p.state = "returned"

\* the request rsa goes on with
RequestOf(p) == IF p.state = "returned" THEN p.order ELSE stockOrder

\* lines 487-511: order_validate(preLogin=True), then fun_run with the
\* holdings or the transaction command; the author has rows for some of
\* the supported brokers
rsa_dispatch ==
    /\ pc = "idle"
    /\ Accepted(parsed)
    /\ LET o == RequestOf(parsed) IN
       IF order_invalid(o)
       THEN /\ pc' = "rejected"
            /\ sink' = Append(sink, <<"Error placing order">>)
            /\ UNCHANGED <<order, store, status>>
       ELSE /\ order' = [brokers |-> order_validate(o).brokers,
                         notbrokers |-> Range(order_validate(o).notbrokers),
                         second_command |-> IF o.holdings THEN "_holdings"
                                            ELSE "_transaction"]
            /\ store' \in SUBSET (Range(o.brokers) \cap Range(SUPPORTED_BROKERS))
            /\ status' = [i \in DOMAIN order'.brokers |-> "pending"]
            /\ pc' = "rsa_parse"
            /\ UNCHANGED sink
    /\ UNCHANGED <<db, idx, invoked, log, fut, abort>>
    /\ UNCHANGED order_logged_in
    /\ UNCHANGED not_dispatch

\* line 130: async def fun_run(author_id, orderObj, command, botObj=None,
\* loop=None)
fun_run_parameters == <<"author_id", "orderObj", "command", "botObj", "loop">>
fun_run_defaults == <<"botObj", "loop">>

\* the positional arguments of the calls of fun_run: rsa lines 495-511,
\* main lines 372 and 374
rsa_call == <<"author_id", "discOrdObj", "command", "bot", "event_loop">>
main_call == <<"cliOrderObj", "command">>

\* a Python call with positional arguments binds when every parameter
\* without a default gets one and none is left over; otherwise TypeError
Binds(parameters, defaults, arguments) ==
    /\ Len(arguments) >= Len(parameters) - Len(defaults)
    /\ Len(arguments) <= Len(parameters)

\* main, lines 343-374: the words of the command line are parsed (line
\* 347, as argParser_call), the request is validated and fun_run is called
\* with the request and the command
main_dispatch ==
    /\ pc = "idle"
    /\ Accepted(parsed)
    /\ LET o == RequestOf(parsed) IN
       IF order_invalid(o)
       THEN /\ pc' = "rejected"
            /\ UNCHANGED <<order, store, status, abort>>
       ELSE IF ~Binds(fun_run_parameters, fun_run_defaults, main_call)
       THEN /\ pc' = "aborted"
            /\ abort' = "TypeError"
            /\ UNCHANGED <<order, store, status>>
       ELSE /\ order' = [brokers |-> order_validate(o).brokers,
                         notbrokers |-> Range(order_validate(o).notbrokers),
                         second_command |-> IF o.holdings THEN "_holdings"
                                            ELSE "_transaction"]
            /\ store' \in SUBSET (Range(o.brokers) \cap Range(SUPPORTED_BROKERS))
            /\ status' = [i \in DOMAIN order'.brokers |-> "pending"]
            /\ pc' = "rsa_parse"
            /\ UNCHANGED abort
    /\ UNCHANGED <<db, idx, invoked, sink, log, fut>>
    /\ UNCHANGED order_logged_in
    /\ UNCHANGED not_dispatch

RsaNext ==
    \/ argParser_call
    \/ rsa_dispatch
    \/ main_dispatch
    \/ Next

InitRsa == DispatchIdle /\ RsaInit /\ TxnIdle /\ InitIdle /\ FidIdle /\ HoldIdle /\ RelayIdle /\ AccountIdle /\ StoreIdle /\ RequestsIdle

SpecRsa == InitRsa /\ [][RsaNext]_vars

----------------------------------------------------------------------------
(* Claims on SpecRsa *)

\* C23: fun_run is started, a credential lookup is made and an adapter
\* function is entered only for a request with a broker and, for a buy or a
\* sell, with an amount and a symbol; a buy or sell of fewer than four words
\* and a holdings command without a broker word never reach fun_run; and a
\* dispatch over no broker ends with the one message "No brokers to run".
C23_RejectedBeforeDispatch ==
    /\ (pc \notin {"idle", "rejected"} \/ invoked # {} \/ status # << >>) =>
          /\ parsed.state = "returned"
          /\ parsed.order.brokers # << >>
          /\ ~parsed.order.holdings =>
                parsed.order.amount # << >> /\ parsed.order.stocks # << >>
    /\ (parsed.state # "idle" /\ args # << >>
          /\ \/ lower(args[1]) \in {"buy", "sell"} /\ Len(args) < 4
             \/ lower(args[1]) = "holdings" /\ Len(args) < 2) =>
          /\ parsed.state = "raised"
          /\ pc = "idle"
    /\ (pc = "done" /\ order.brokers = << >>) =>
          /\ sink = << <<"No brokers to run">> >>
          /\ invoked = {}

\* a buy whose broker word names no supported broker was rejected by the
\* validation, and nothing was started
C23_Witness ==
    /\ args = <<"buy", "1", "aapl", "aapl">>
    /\ parsed.state = "raised"
    /\ parsed.error = "ValueError"
    /\ pc = "idle"
    /\ invoked = {}

\* a buy without a symbol and a broker
C23_WitnessShort ==
    /\ args = <<"buy", "1">>
    /\ parsed.state = "raised"
    /\ parsed.error = "IndexError"
    /\ pc = "idle"

\* C25: a valid request entered on the command line is handed by main to
\* fun_run: the call enters fun_run, which then runs the dispatch.
C25_CliEntersFunRun ==
    [][(main_dispatch /\ ~order_invalid(RequestOf(parsed)))
          => pc' = "rsa_parse" /\ abort' = "none"]_vars

----------------------------------------------------------------------------
(* fun_run and fidelity_run: the coroutine handed to the loop *)

\* fun_run after lines 186-199 for a request naming fidelity: the coroutine
\* of fidelity_run is handed to the loop and fun_run stands in
\* future.result() (line 202)
Submitted ==
    /\ order \in [brokers : {<<"fidelity">>},
                  notbrokers : {{}},
                  second_command : Commands]
    /\ store = {"fidelity"}
    /\ db = "open"
    /\ pc = "future_result"
    /\ idx = 1
    /\ status = <<"pending">>
    /\ invoked = {}
    /\ order_logged_in = {}
    /\ sink = << >>
    /\ log = << >>
    /\ fut = "pending"
    /\ abort = "none"

\* line 722: `_, second_command = command`, the command fun_run passed on
HandoffInit ==
    /\ Submitted
    /\ FidInit
    /\ fcmd = order.second_command

\* fidelity_run ends and the future is done: `return None` after the last
\* credential set (fidelityAPI.py 752; there is no other return value), or
\* the exception that left it
fidelity_run_return ==
    /\ fut = "pending"
    /\ fstep \in {"done", "raised"}
    /\ fut' = IF fstep = "done" THEN "returned_none" ELSE "raised"
    /\ invoked' = invoked \cup {<<nicknames(Broker), "_run">>}
    /\ UNCHANGED <<order, store, db, pc, idx, status, sink, log, abort>>
    /\ UNCHANGED order_logged_in
    /\ UNCHANGED not_dispatch

HandoffNext ==
    \/ FidNext
    \/ fidelity_run_return
    \/ fun_run_future_done

InitHandoff == HandoffInit /\ ParseIdle /\ TxnIdle /\ InitIdle /\ HoldIdle /\ RelayIdle /\ AccountIdle /\ StoreIdle /\ RequestsIdle

SpecHandoff == InitHandoff /\ [][HandoffNext]_vars

----------------------------------------------------------------------------
(* Claims on SpecHandoff *)

\* every credential set logged in and had its holdings or transaction
\* function run
RanEverySet ==
    \A p \in DOMAIN fcreds :
        \E s \in fsteps : s.pos = p /\ s.fn # "fidelity_init"

\* C30: when fidelity_run has run every credential set and ended without an
\* exception, fun_run, once past future.result(), has the broker in the
\* done state (and not in the errored state).
C30_FaultlessRunEndsDone ==
    (fut = "none" /\ fstep = "done" /\ RanEverySet) => status[1] = "done"

----------------------------------------------------------------------------
(* fun_run and <broker>_init: whose credentials a login uses *)

\* what os.environ holds under a broker's name: the credentials of the
\* process's own .env file, or nothing
Environ == {"None", "env credentials"}

\* the init reads the environment whenever it holds credentials
CredentialSource_env_first(API_METADATA, environ) ==
    IF environ # "None" THEN environ ELSE API_METADATA.EXTERNAL_CREDENTIALS

\* fennel_init 20-34, schwab_init 18-33 (and the same lines of every init):
\* the credential string the init logs in with, "None" when it returns at
\* "<Broker> not found, skipping..."
CredentialSource(API_METADATA, environ) ==
    LET EXTERNAL_CREDENTIALS == API_METADATA.EXTERNAL_CREDENTIALS IN
    IF environ = "None" /\ EXTERNAL_CREDENTIALS = "None"
    THEN "None"
    ELSE IF EXTERNAL_CREDENTIALS = "None" THEN environ ELSE EXTERNAL_CREDENTIALS

\* a call of fun_run(author_id, ...) at the lookup for one broker
Request(author_id, broker) ==
    [author_id    |-> author_id,
     broker       |-> broker,
     at           |-> "lookup",
     API_METADATA |-> [EXTERNAL_CREDENTIALS |-> "None", CURRENT_USER_ID |-> 0],
     stored       |-> "none",
     used         |-> "None"]

\* the requests are sent by the users in turn, for one broker
Author(k) == ((k - 1) % Cardinality(Users)) + 1

RequestsInit ==
    /\ ureq \in {[k \in 1..MaxRequests |-> Request(Author(k), b)] :
                    b \in StoreBrokers}
    /\ uenv \in {[b \in StoreBrokers |-> e] : e \in Environ}

\* what the users have stored: per (user, broker) the credentials of their
\* last rsaadd, or "none"
Stored ==
    {f \in [Users \X StoreBrokers -> CredWords \cup {"none"}] :
        \A p \in Users \X StoreBrokers :
            f[p] # "none" => f[p] # "None" /\ FormatOk(p[2], f[p])}

\* the AUTOINCREMENT id of a row: the rows were inserted user by user
RowId(user, broker) ==
    (user - 1) * Cardinality(StoreBrokers)
        + CASE broker = "tradier" -> 1 [] broker = "fennel" -> 2 [] OTHER -> 3

\* rsa_credentials as the rsaadd commands that stored f left it
Table(f) ==
    {[id |-> RowId(p[1], p[2]), user_id |-> str(p[1]), broker |-> p[2],
      credentials |-> encrypt_credential(f[p], RowId(p[1], p[2]))] :
        p \in {q \in Users \X StoreBrokers : f[q] # "none"}}

StoredInit ==
    /\ cack \in Stored
    /\ ctable = Table(cack)
    /\ cnextid = Cardinality(Users \X StoreBrokers) + 1
    /\ creply = "none"
    /\ ccount = 0
    /\ cstate = "idle"

\* fun_run lines 160-171 for the request k: the row of (author_id, broker)
\* is looked up; without a row the broker is skipped, with one the
\* decrypted credentials and the author's id go into API_METADATA
lookup_credentials ==
    /\ \E k \in DOMAIN ureq :
        /\ ureq[k].at = "lookup"
        /\ \E decrypted_credentials \in
                 Lookup(ctable, ureq[k].author_id, ureq[k].broker) :
             ureq' = [ureq EXCEPT ![k] =
                 IF decrypted_credentials = "none"
                 THEN [@ EXCEPT !.at = "skipped"]
                 ELSE [@ EXCEPT
                         !.at = "init",
                         !.stored = cack[<<ureq[k].author_id, ureq[k].broker>>],
                         !.API_METADATA =
                            [EXTERNAL_CREDENTIALS |-> decrypted_credentials,
                             CURRENT_USER_ID |-> ureq[k].author_id]]]
    /\ UNCHANGED uenv
    /\ UNCHANGED not_requests

\* <broker>_init(API_METADATA=API_METADATA, ...) of the request k: the
\* logins are made with the credential string the init picked
init_credentials ==
    /\ \E k \in DOMAIN ureq :
        /\ ureq[k].at = "init"
        /\ LET picked == CredentialSource(ureq[k].API_METADATA,
                                          uenv[ureq[k].broker])
           IN ureq' = [ureq EXCEPT ![k] =
                 [@ EXCEPT !.at = IF picked = "None" THEN "not found"
                                  ELSE "logged in",
                           !.used = picked]]
    /\ UNCHANGED uenv
    /\ UNCHANGED not_requests

CredsNext ==
    \/ lookup_credentials
    \/ init_credentials

InitCreds == DispatchIdle /\ ParseIdle /\ TxnIdle /\ InitIdle /\ FidIdle /\ HoldIdle /\ RelayIdle /\ AccountIdle /\ StoredInit /\ RequestsInit

SpecCreds == InitCreds /\ [][CredsNext]_vars

----------------------------------------------------------------------------
(* Claims on SpecCreds *)

\* C33: every login an init makes for a request of user U and broker B uses
\* the credentials that were stored for (U, B) when fun_run looked them up,
\* under U's id; it never uses the credentials of the environment; a request
\* without a stored row reaches no init.
C33_OnlyOwnStoredCredentials ==
    \A k \in DOMAIN ureq :
        /\ ureq[k].at \in {"logged in", "not found"} =>
              /\ ureq[k].at = "logged in"
              /\ ureq[k].stored # "none"
              /\ ureq[k].used = ureq[k].stored
              /\ ureq[k].used # uenv[ureq[k].broker]
              /\ ureq[k].API_METADATA.CURRENT_USER_ID = ureq[k].author_id
        /\ ureq[k].at \in {"lookup", "skipped"} => ureq[k].used = "None"

\* two users with different tokens stored for tradier, each logged in by a
\* request of their own, while the environment holds credentials too
C33_Witness ==
    /\ ureq[1].at = "logged in" /\ ureq[2].at = "logged in"
    /\ ureq[1].broker = "tradier" /\ ureq[2].broker = "tradier"
    /\ ureq[1].author_id # ureq[2].author_id
    /\ ureq[1].used # ureq[2].used
    /\ uenv["tradier"] # "None"

====
